---- MODULE Spec2Model ----
(***************************************************************************)
(* Orchestration core of Attorney-General.AI: the Router                   *)
(* (attorney_general/controller/router.py) together with the components it *)
(* drives: SecurityValidator, StateManager, MemoryStore, AgentRegistry and *)
(* EventStream.                                                            *)
(*                                                                         *)
(* route_to_agent is an async generator.  Its body is modelled statement   *)
(* group by statement group, with the position of every dispatch kept in   *)
(* task[d].pc.  Code between two suspension points (an await on the        *)
(* network, or a yield to the caller) runs without interleaving, as it     *)
(* does on one asyncio event loop.                                         *)
(***************************************************************************)
EXTENDS Integers, Sequences, FiniteSets, TLC

\* ------------------------------------------------------------------ bounds
MaxClock == 1          \* seconds the wall clock may advance
MaxLines == 3          \* lines a streaming worker sends before end of stream
MaxShortTerm == 2      \* MemoryStore(max_short_term_items=...)
MaxLongTerm == 1       \* MemoryStore(max_long_term_items=...)
MaxHistory == 3        \* EventStream(max_history=...)
MaxAdds == 4           \* items a client adds to one memory before a reset
MaxImport == 3         \* length of the tiers in an imported snapshot
MaxMessages == 2      \* messages a client adds to one conversation's log
MaxSubscriptions == 3      \* subscriptions a client makes on one EventSystem
MaxSystemPublishes == 2    \* publish calls made on one EventSystem
MaxPublishes == 3      \* events a client publishes on one bus

\* EventSystem._max_history_per_type
MaxHistoryPerType == 100

\* --------------------------------------------------------------- universes
None == "None"
DefaultModel == "gpt-4"

Dispatches == {"d1"}

\* Workers the bootstrap registers, in this order: id |-> declaration.
BootOrder == <<"w1", "FileAgent">>
AgentCatalog ==
    [ w1        |-> [name |-> "Worker One", url |-> "http://w1:9001",
                     capabilities |-> <<"search">>, supports_streaming |-> FALSE],
      FileAgent |-> [name |-> "File Agent", url |-> "http://localhost:5002",
                     capabilities |-> <<"file">>, supports_streaming |-> TRUE] ]

\* Targets a caller may name: registered ids, a capability tag, legacy names,
\* or no target at all (Python's None).
Targets == {"w1", "FileAgent", "SearchAgent", "search", None}

\* Text payloads are sequences of whitespace-separated tokens.
PText == [kind |-> "str",  text |-> <<"find", "contracts">>]
PRm   == [kind |-> "str",  text |-> <<"SUDO", "rm", "x">>]
PUrl  == [kind |-> "str",  text |-> <<"see", "http://evil.com/x">>]
PNone == [kind |-> "none"]               \* no payload: Python's None
Payloads == {PText, PRm, PUrl, PNone}

EmptyDict == [k \in {} |-> None]
OConv   == [conversation_id |-> "c1"]
OBypass == [conversation_id |-> "c1", bypass_security |-> TRUE]
OptionsSet == {EmptyDict, OConv, OBypass}

\* ------------------------------------------------------ SecurityValidator
\* Each blocked regex, split at its \s+ separators into token pieces.
blocked_patterns ==
    << <<"rm", "-rf", "/">>, <<"sudo", "rm">>, <<"eval(">>, <<"exec(">>,
       <<"system(">>, <<"subprocess.call">>, <<"os.system">>,
       <<"__import__(">>, <<"importlib">> >>

blocked_domains == <<"evil.com", "malware.com", "phishing.com">>

\* str.lower() / re.IGNORECASE over the token vocabulary.
Lower(tok) ==
    CASE tok = "SUDO" -> "sudo"
      [] tok = "RM" -> "rm"
      [] tok = "N" -> "n"
      [] OTHER -> tok

\* re.search(pattern, text, re.IGNORECASE)
PatternMatches(pattern, text) ==
    \E i \in 1..Len(text) :
        /\ i + Len(pattern) - 1 <= Len(text)
        /\ \A j \in 1..Len(pattern) : Lower(text[i + j - 1]) = pattern[j]

RECURSIVE CollectPatterns(_, _)
CollectPatterns(text, k) ==
    IF k > Len(blocked_patterns) THEN <<>>
    ELSE (IF PatternMatches(blocked_patterns[k], text)
          THEN <<[kind |-> "pattern", item |-> k]>> ELSE <<>>)
         \o CollectPatterns(text, k + 1)

check_text_safety(text) == CollectPatterns(text, 1)

\* re.findall(r'https?://[^\s]+', text)
IsUrl(tok) == tok \in {"http://evil.com/x", "https://example.org/a"}
extract_urls(text) == SelectSeq(text, IsUrl)

\* `domain in url.lower()`
DomainInUrl(domain, url) == domain = "evil.com" /\ url = "http://evil.com/x"

RECURSIVE CollectDomains(_, _, _)
CollectDomains(urls, u, k) ==
    IF u > Len(urls) THEN <<>>
    ELSE IF k > Len(blocked_domains) THEN CollectDomains(urls, u + 1, 1)
    ELSE (IF DomainInUrl(blocked_domains[k], urls[u])
          THEN <<[kind |-> "domain", item |-> k]>> ELSE <<>>)
         \o CollectDomains(urls, u, k + 1)

check_url_safety(payload) ==
    IF payload.kind = "str" THEN CollectDomains(extract_urls(payload.text), 1, 1)
    ELSE <<>>

Truthy(options, key) == key \in DOMAIN options /\ options[key] = TRUE

check_options_safety(options) ==
    (IF Truthy(options, "unsafe") THEN <<[kind |-> "option", item |-> 1]>> ELSE <<>>)
    \o (IF Truthy(options, "bypass_security")
        THEN <<[kind |-> "option", item |-> 2]>> ELSE <<>>)

\* request is a dict: a function whose DOMAIN is the set of keys present.
validate_request(request) ==
    LET v1 == IF "agent" \notin DOMAIN request
              THEN <<[kind |-> "missing", item |-> 1]>> ELSE <<>>
        v2 == IF "payload" \notin DOMAIN request
              THEN <<[kind |-> "missing", item |-> 2]>> ELSE <<>>
        v3 == IF "payload" \in DOMAIN request /\ request.payload.kind = "str"
              THEN check_text_safety(request.payload.text) ELSE <<>>
        v4 == IF "payload" \in DOMAIN request
              THEN check_url_safety(request.payload) ELSE <<>>
        v5 == IF "options" \in DOMAIN request
              THEN check_options_safety(request.options) ELSE <<>>
        violations == v1 \o v2 \o v3 \o v4 \o v5
    IN  [safe |-> Len(violations) = 0, violations |-> violations]

\* ------------------------------------------------------------ StateManager
\* A state-manager value is [conversations, messages, contexts], each a dict
\* keyed by conversation id.
\* Variant of create_conversation: an existing id is created afresh.
create_conversation_Overwrite(sm, cid, metadata, t) ==
    [conversations |->
         (cid :> [id |-> cid, state |-> "active", created_at |-> t,
                  updated_at |-> t, active_agent |-> None,
                  metadata |-> metadata]) @@ sm.conversations,
     messages |-> (cid :> <<>>) @@ sm.messages,
     contexts |-> (cid :> EmptyDict) @@ sm.contexts]

create_conversation(sm, cid, metadata, t) ==
    IF cid \in DOMAIN sm.conversations THEN sm
    ELSE [conversations |->
              (cid :> [id |-> cid, state |-> "active", created_at |-> t,
                       updated_at |-> t, active_agent |-> None,
                       metadata |-> metadata]) @@ sm.conversations,
          messages |-> (cid :> <<>>) @@ sm.messages,
          contexts |-> (cid :> EmptyDict) @@ sm.contexts]

\* Variant of update_conversation: the metadata given replaces the metadata
\* held.
update_conversation_Replace(sm, cid, updates, t) ==
    IF cid \notin DOMAIN sm.conversations THEN sm
    ELSE LET c  == sm.conversations[cid]
             c1 == IF "state" \in DOMAIN updates
                   THEN [c EXCEPT !.state = updates.state] ELSE c
             c2 == IF "active_agent" \in DOMAIN updates
                   THEN [c1 EXCEPT !.active_agent = updates.active_agent] ELSE c1
             c3 == IF "metadata" \in DOMAIN updates
                   THEN [c2 EXCEPT !.metadata = updates.metadata] ELSE c2
         IN  [sm EXCEPT !.conversations[cid] = [c3 EXCEPT !.updated_at = t]]

\* updates is a dict with keys among state, active_agent, metadata; the
\* metadata it carries is a dict (lines 101-102: dict.update, the keys given
\* win).
update_conversation(sm, cid, updates, t) ==
    IF cid \notin DOMAIN sm.conversations THEN sm
    ELSE LET c  == sm.conversations[cid]
             c1 == IF "state" \in DOMAIN updates
                   THEN [c EXCEPT !.state = updates.state] ELSE c
             c2 == IF "active_agent" \in DOMAIN updates
                   THEN [c1 EXCEPT !.active_agent = updates.active_agent] ELSE c1
             c3 == IF "metadata" \in DOMAIN updates
                   THEN [c2 EXCEPT !.metadata = updates.metadata @@ c2.metadata]
                   ELSE c2
             c4 == [c3 EXCEPT !.updated_at = t]
         IN  [sm EXCEPT !.conversations[cid] = c4]

\* Variant of add_message: a new message makes the conversation active again.
add_message_Reactivate(sm, cid, message, t) ==
    IF cid \notin DOMAIN sm.conversations THEN sm
    ELSE LET log == IF cid \in DOMAIN sm.messages THEN sm.messages[cid] ELSE <<>>
         IN  [sm EXCEPT !.messages = (cid :> Append(log, message)) @@ sm.messages,
                        !.conversations[cid].updated_at = t,
                        !.conversations[cid].state = "active"]

add_message(sm, cid, message, t) ==
    IF cid \notin DOMAIN sm.conversations THEN sm
    ELSE LET log == IF cid \in DOMAIN sm.messages THEN sm.messages[cid] ELSE <<>>
         IN  [sm EXCEPT !.messages = (cid :> Append(log, message)) @@ sm.messages,
                        !.conversations[cid].updated_at = t]

\* Variant of delete_conversation: the record goes, the message log and the
\* context stay.
delete_conversation_KeepLog(sm, cid) ==
    IF cid \notin DOMAIN sm.conversations THEN sm
    ELSE [sm EXCEPT !.conversations =
                        [k \in DOMAIN sm.conversations \ {cid} |-> sm.conversations[k]]]

delete_conversation(sm, cid) ==
    IF cid \notin DOMAIN sm.conversations THEN sm
    ELSE [conversations |-> [k \in DOMAIN sm.conversations \ {cid} |-> sm.conversations[k]],
          messages      |-> [k \in DOMAIN sm.messages \ {cid} |-> sm.messages[k]],
          contexts      |-> [k \in DOMAIN sm.contexts \ {cid} |-> sm.contexts[k]]]

set_context(sm, cid, context, t) ==
    IF cid \notin DOMAIN sm.conversations THEN sm
    ELSE [sm EXCEPT !.contexts = (cid :> context) @@ sm.contexts,
                    !.conversations[cid].updated_at = t]

\* dict.update: the keys of updates win.
update_context(sm, cid, updates, t) ==
    IF cid \notin DOMAIN sm.conversations THEN sm
    ELSE LET context == IF cid \in DOMAIN sm.contexts THEN sm.contexts[cid]
                        ELSE EmptyDict
         IN  [sm EXCEPT !.contexts = (cid :> (updates @@ context)) @@ sm.contexts,
                        !.conversations[cid].updated_at = t]

\* None is [none |-> TRUE]; otherwise the conversation record with its
\* messages and context added.
export_conversation(sm, cid) ==
    IF cid \notin DOMAIN sm.conversations THEN [none |-> TRUE]
    ELSE ("messages" :> (IF cid \in DOMAIN sm.messages THEN sm.messages[cid] ELSE <<>>))
         @@ ("context" :> (IF cid \in DOMAIN sm.contexts THEN sm.contexts[cid]
                           ELSE EmptyDict))
         @@ sm.conversations[cid]

\* Variant of import_conversation: the imported conversation starts active.
import_conversation_Activate(sm, conversation_data, t) ==
    IF "id" \notin DOMAIN conversation_data THEN sm
    ELSE LET cid == conversation_data.id
         IN  [conversations |->
                  (cid :> [id |-> cid, state |-> "active",
                           created_at |-> IF "created_at" \in DOMAIN conversation_data
                                          THEN conversation_data.created_at ELSE t,
                           updated_at |-> t,
                           active_agent |-> IF "active_agent" \in DOMAIN conversation_data
                                            THEN conversation_data.active_agent ELSE None,
                           metadata |-> IF "metadata" \in DOMAIN conversation_data
                                        THEN conversation_data.metadata
                                        ELSE EmptyDict]) @@ sm.conversations,
              messages |-> (cid :> (IF "messages" \in DOMAIN conversation_data
                                    THEN conversation_data.messages ELSE <<>>))
                           @@ sm.messages,
              contexts |-> (cid :> (IF "context" \in DOMAIN conversation_data
                                    THEN conversation_data.context
                                    ELSE EmptyDict)) @@ sm.contexts]

\* conversation_data.get(key, default) for each field.
import_conversation(sm, conversation_data, t) ==
    IF "id" \notin DOMAIN conversation_data THEN sm
    ELSE LET cid == conversation_data.id
         IN  [conversations |->
                  (cid :> [id |-> cid,
                           state |-> IF "state" \in DOMAIN conversation_data
                                     THEN conversation_data.state ELSE "active",
                           created_at |-> IF "created_at" \in DOMAIN conversation_data
                                          THEN conversation_data.created_at ELSE t,
                           updated_at |-> t,
                           active_agent |-> IF "active_agent" \in DOMAIN conversation_data
                                            THEN conversation_data.active_agent ELSE None,
                           metadata |-> IF "metadata" \in DOMAIN conversation_data
                                        THEN conversation_data.metadata
                                        ELSE EmptyDict]) @@ sm.conversations,
              messages |-> (cid :> (IF "messages" \in DOMAIN conversation_data
                                    THEN conversation_data.messages ELSE <<>>))
                           @@ sm.messages,
              contexts |-> (cid :> (IF "context" \in DOMAIN conversation_data
                                    THEN conversation_data.context
                                    ELSE EmptyDict)) @@ sm.contexts]

\* ------------------------------------------------------------- MemoryStore
\* A memory value is [st, lt, cd, max_st, max_lt]: the short-term, long-term
\* and condensed dicts, each keyed by conversation id, and the two capacities
\* given to the constructor.
DefaultCondensed(t) == [summary |-> "", key_points |-> <<>>, last_updated |-> t]

\* Python's s[-n:] (for n = 0 that is s[0:], the whole list).
LastN(s, n) ==
    IF n = 0 \/ Len(s) <= n THEN s ELSE SubSeq(s, Len(s) - n + 1, Len(s))

\* Variant of create_memory: an id that already has memory gets fresh tiers.
create_memory_Reset(m, cid, t) ==
    [m EXCEPT !.st = (cid :> <<>>) @@ m.st,
              !.lt = (cid :> <<>>) @@ m.lt,
              !.cd = (cid :> DefaultCondensed(t)) @@ m.cd]

create_memory(m, cid, t) ==
    IF cid \in DOMAIN m.st THEN m
    ELSE [m EXCEPT !.st = (cid :> <<>>) @@ m.st,
                   !.lt = (cid :> <<>>) @@ m.lt,
                   !.cd = (cid :> DefaultCondensed(t)) @@ m.cd]

add_to_short_term_memory(m, cid, item) ==
    IF cid \notin DOMAIN m.st THEN m
    ELSE LET st1 == Append(m.st[cid], item)
         IN  IF Len(st1) > m.max_st
             THEN LET lt1 == Append(m.lt[cid], Head(st1))
                  IN  [m EXCEPT !.st[cid] = Tail(st1),
                                !.lt[cid] = IF Len(lt1) > m.max_lt
                                            THEN LastN(lt1, m.max_lt) ELSE lt1]
             ELSE [m EXCEPT !.st[cid] = st1]

\* Variant of add_to_long_term_memory: a missing id gets a long-term tier.
add_to_long_term_memory_AutoCreate(m, cid, item) ==
    [m EXCEPT !.lt = (cid :> <<item>>) @@ m.lt]

add_to_long_term_memory(m, cid, item) ==
    IF cid \notin DOMAIN m.lt THEN m
    ELSE LET lt1 == Append(m.lt[cid], item)
         IN  [m EXCEPT !.lt[cid] = IF Len(lt1) > m.max_lt
                                   THEN LastN(lt1, m.max_lt) ELSE lt1]

\* summary / key_points of None leave the field as it is.
update_condensed_memory(m, cid, summary, key_points, t) ==
    IF cid \notin DOMAIN m.cd THEN m
    ELSE [m EXCEPT !.cd[cid] =
            [summary      |-> IF summary # None THEN summary ELSE @.summary,
             key_points   |-> IF key_points # None THEN key_points ELSE @.key_points,
             last_updated |-> t]]

\* Variant of clear_memory: the three entries are removed, as delete_memory
\* does.
clear_memory_Drop(m, cid, t) ==
    IF cid \notin DOMAIN m.st THEN m
    ELSE [m EXCEPT !.st = [k \in DOMAIN m.st \ {cid} |-> m.st[k]],
                   !.lt = [k \in DOMAIN m.lt \ {cid} |-> m.lt[k]],
                   !.cd = [k \in DOMAIN m.cd \ {cid} |-> m.cd[k]]]

clear_memory(m, cid, t) ==
    IF cid \notin DOMAIN m.st THEN m
    ELSE [m EXCEPT !.st[cid] = <<>>, !.lt[cid] = <<>>, !.cd[cid] = DefaultCondensed(t)]

\* del dict[key]
Without(dict, key) == [k \in DOMAIN dict \ {key} |-> dict[k]]

delete_memory(m, cid) ==
    IF cid \notin DOMAIN m.st THEN m
    ELSE [m EXCEPT !.st = Without(m.st, cid), !.lt = Without(m.lt, cid),
                   !.cd = Without(m.cd, cid)]

\* dict.get(key, default)
GetOr(dict, key, default) == IF key \in DOMAIN dict THEN dict[key] ELSE default

get_memory(m, cid) ==
    IF cid \notin DOMAIN m.st THEN [none |-> TRUE]
    ELSE [conversation_id |-> cid, short_term |-> m.st[cid],
          long_term |-> m.lt[cid], condensed |-> m.cd[cid]]

\* A Python value with its type: a str is its characters, an int its value.
StrVal(chars) == [str |-> chars]
IntVal(k)     == [int |-> k]
IsStr(v)      == "str" \in DOMAIN v

\* str.lower() of a str given by its characters.
LowerStr(chars) == [i \in 1..Len(chars) |-> Lower(chars[i])]
\* sub in s
Contains(sub, s) ==
    \E i \in 0..(Len(s) - Len(sub)) : SubSeq(s, i + 1, i + Len(sub)) = sub

\* Lines 318 and 324: the test applied to each item.
Matches(item, query) ==
    /\ "content" \in DOMAIN item
    /\ IsStr(item.content)
    /\ Contains(LowerStr(query), LowerStr(item.content.str))

\* None is [none |-> TRUE], a list of results is [results |-> list].
search_memory(m, cid, query) ==
    IF cid \notin DOMAIN m.st THEN [none |-> TRUE]
    ELSE [results |-> SelectSeq(m.st[cid], LAMBDA item : Matches(item, query))
                      \o SelectSeq(m.lt[cid], LAMBDA item : Matches(item, query))]

import_memory(m, memory_data, t) ==
    IF "conversation_id" \notin DOMAIN memory_data THEN m
    ELSE LET cid == memory_data.conversation_id
         IN  [m EXCEPT !.st = (cid :> GetOr(memory_data, "short_term", <<>>)) @@ m.st,
                       !.lt = (cid :> GetOr(memory_data, "long_term", <<>>)) @@ m.lt,
                       !.cd = (cid :> GetOr(memory_data, "condensed",
                                            DefaultCondensed(t))) @@ m.cd]

\* ----------------------------------------------------------- AgentRegistry
\* A registry value is [agents, activity, index, order]: order is the
\* insertion order of the _agents dict.
\* Variant of IndexAll: the id goes to the front of each bucket.
RECURSIVE IndexAll_Prepend(_, _, _)
IndexAll_Prepend(index, capabilities, agent_id) ==
    IF capabilities = <<>> THEN index
    ELSE LET cap    == Head(capabilities)
             bucket == IF cap \in DOMAIN index THEN index[cap] ELSE <<>>
         IN  IndexAll_Prepend((cap :> (<<agent_id>> \o bucket)) @@ index,
                              Tail(capabilities), agent_id)

RECURSIVE IndexAll(_, _, _)
IndexAll(index, capabilities, agent_id) ==
    IF capabilities = <<>> THEN index
    ELSE LET cap    == Head(capabilities)
             bucket == IF cap \in DOMAIN index THEN index[cap] ELSE <<>>
         IN  IndexAll((cap :> Append(bucket, agent_id)) @@ index,
                      Tail(capabilities), agent_id)

\* Variant of register_agent: an id already present is registered again over
\* the old record.
register_agent_Overwrite(reg, agent_id, decl, t) ==
    [agents   |-> (agent_id :> [id |-> agent_id, name |-> decl.name, url |-> decl.url,
                                capabilities |-> decl.capabilities,
                                supports_streaming |-> decl.supports_streaming,
                                status |-> "active", registered_at |-> t])
                  @@ reg.agents,
     index    |-> IndexAll(reg.index, decl.capabilities, agent_id),
     activity |-> (agent_id :> t) @@ reg.activity,
     order    |-> IF agent_id \in DOMAIN reg.agents THEN reg.order
                  ELSE Append(reg.order, agent_id)]

register_agent(reg, agent_id, decl, t) ==
    IF agent_id \in DOMAIN reg.agents THEN reg
    ELSE [agents   |-> (agent_id :> [id |-> agent_id, name |-> decl.name,
                                     url |-> decl.url,
                                     capabilities |-> decl.capabilities,
                                     supports_streaming |-> decl.supports_streaming,
                                     status |-> "active", registered_at |-> t])
                       @@ reg.agents,
          index    |-> IndexAll(reg.index, decl.capabilities, agent_id),
          activity |-> (agent_id :> t) @@ reg.activity,
          order    |-> Append(reg.order, agent_id)]

update_agent_activity(reg, agent_id, t) ==
    IF agent_id \notin DOMAIN reg.agents THEN reg
    ELSE [reg EXCEPT !.activity = (agent_id :> t) @@ reg.activity]

\* list.remove(x): the first occurrence goes.
RECURSIVE Remove(_, _)
Remove(list, x) ==
    IF list = <<>> THEN <<>>
    ELSE IF Head(list) = x THEN Tail(list)
    ELSE <<Head(list)>> \o Remove(Tail(list), x)

Range(list) == {list[i] : i \in 1..Len(list)}

\* Lines 86-96: the loop over the worker's capabilities.
RECURSIVE UnindexAll(_, _, _)
UnindexAll(index, capabilities, agent_id) ==
    IF capabilities = <<>> THEN index
    ELSE LET cap == Head(capabilities)
         IN  IF cap \in DOMAIN index /\ agent_id \in Range(index[cap])
             THEN LET bucket == Remove(index[cap], agent_id)
                  IN  UnindexAll(IF bucket = <<>> THEN Without(index, cap)
                                 ELSE [index EXCEPT ![cap] = bucket],
                                 Tail(capabilities), agent_id)
             ELSE UnindexAll(index, Tail(capabilities), agent_id)

\* Variant of unregister_agent: emptied buckets stay in the index.
unregister_agent_NoPrune(reg, agent_id) ==
    IF agent_id \notin DOMAIN reg.agents THEN reg
    ELSE [agents   |-> [k \in DOMAIN reg.agents \ {agent_id} |-> reg.agents[k]],
          index    |-> [c \in DOMAIN reg.index |->
                          SelectSeq(reg.index[c], LAMBDA x : x # agent_id)],
          activity |-> [k \in DOMAIN reg.activity \ {agent_id} |-> reg.activity[k]],
          order    |-> SelectSeq(reg.order, LAMBDA x : x # agent_id)]

\* Variant of unregister_agent: the liveness entry of the worker is kept.
unregister_agent_KeepActivity(reg, agent_id) ==
    IF agent_id \notin DOMAIN reg.agents THEN reg
    ELSE [agents   |-> [k \in DOMAIN reg.agents \ {agent_id} |-> reg.agents[k]],
          index    |-> UnindexAll(reg.index, reg.agents[agent_id].capabilities, agent_id),
          activity |-> reg.activity,
          order    |-> SelectSeq(reg.order, LAMBDA x : x # agent_id)]

unregister_agent(reg, agent_id) ==
    IF agent_id \notin DOMAIN reg.agents THEN reg
    ELSE [agents   |-> Without(reg.agents, agent_id),
          index    |-> UnindexAll(reg.index, reg.agents[agent_id].capabilities, agent_id),
          activity |-> Without(reg.activity, agent_id),
          order    |-> Remove(reg.order, agent_id)]

find_agents_by_capability(reg, capability) == GetOr(reg.index, capability, <<>>)

\* agent_scores is a dict in insertion order: a list of [id, score] pairs.
RECURSIVE Bump(_, _)
Bump(scores, agent_id) ==
    IF scores = <<>> THEN <<[id |-> agent_id, score |-> 1]>>
    ELSE IF Head(scores).id = agent_id
         THEN <<[Head(scores) EXCEPT !.score = @ + 1]>> \o Tail(scores)
         ELSE <<Head(scores)>> \o Bump(Tail(scores), agent_id)

RECURSIVE BumpAll(_, _)
BumpAll(scores, agent_ids) ==
    IF agent_ids = <<>> THEN scores
    ELSE BumpAll(Bump(scores, Head(agent_ids)), Tail(agent_ids))

\* Lines 201-205: the two nested loops.
RECURSIVE ScoreAll(_, _, _)
ScoreAll(reg, scores, required_capabilities) ==
    IF required_capabilities = <<>> THEN scores
    ELSE ScoreAll(reg,
                  BumpAll(scores, find_agents_by_capability(reg, Head(required_capabilities))),
                  Tail(required_capabilities))

\* Variant of MaxFirst: the last item with the highest score.
RECURSIVE MaxLast(_, _)
MaxLast(scores, best) ==
    IF scores = <<>> THEN best
    ELSE MaxLast(Tail(scores),
                 IF Head(scores).score >= best.score THEN Head(scores) ELSE best)

\* max(items, key=score): the first item with the highest score.
RECURSIVE MaxFirst(_, _)
MaxFirst(scores, best) ==
    IF scores = <<>> THEN best
    ELSE MaxFirst(Tail(scores),
                  IF Head(scores).score > best.score THEN Head(scores) ELSE best)

find_best_agent_for_task(reg, required_capabilities) ==
    IF required_capabilities = <<>> THEN None
    ELSE LET agent_scores == ScoreAll(reg, <<>>, required_capabilities)
         IN  IF agent_scores = <<>> THEN None
             ELSE MaxFirst(Tail(agent_scores), Head(agent_scores)).id

\* ------------------------------------------------------------- EventStream
\* A bus value is [subscribers, history, delivered, max_history]: subscribers
\* is the dict of subscriptions in insertion order, delivered[s] the events
\* the callback now subscribed as s has been handed.
Event(event_type, data, source, t) ==
    [type |-> event_type, data |-> data, source |-> source, timestamp |-> t]

Interested(sub, event_type) ==
    "*" \in sub.event_types \/ event_type \in sub.event_types

\* subscriber["callback"](event): the callback receives the event, then
\* returns or raises an Exception.
Invoke(delivered, sub, event) ==
    [delivered |-> [delivered EXCEPT ![sub.id] = Append(@, event)],
     raised    |-> sub.raises]

\* Variant of Notify: no try/except around the callback, the first exception
\* ends the loop.
RECURSIVE Notify_Propagate(_, _, _, _)
Notify_Propagate(delivered, subscribers, k, event) ==
    IF k > Len(subscribers) THEN delivered
    ELSE LET sub == subscribers[k]
             r   == Invoke(delivered, sub, event)
         IN  IF ~Interested(sub, event.type)
             THEN Notify_Propagate(delivered, subscribers, k + 1, event)
             ELSE IF r.raised THEN r.delivered
             ELSE Notify_Propagate(r.delivered, subscribers, k + 1, event)

\* Lines 167-175: an exception of a callback is caught and logged, and the
\* loop goes on with the next subscriber.
RECURSIVE Notify(_, _, _, _)
Notify(delivered, subscribers, k, event) ==
    IF k > Len(subscribers) THEN delivered
    ELSE LET sub == subscribers[k]
         IN  IF Interested(sub, event.type)
             THEN Notify(Invoke(delivered, sub, event).delivered, subscribers, k + 1, event)
             ELSE Notify(delivered, subscribers, k + 1, event)

\* Position of subscriber_id in the dict of subscribers, 0 if absent.
PositionOf(subscribers, subscriber_id) ==
    IF \E i \in 1..Len(subscribers) : subscribers[i].id = subscriber_id
    THEN CHOOSE i \in 1..Len(subscribers) : subscribers[i].id = subscriber_id
    ELSE 0

\* dict[key] = value: a key already present keeps its position.
subscribe(bus, subscriber_id, event_types, raises) ==
    IF event_types = {} THEN bus
    ELSE LET sub == [id |-> subscriber_id, event_types |-> event_types, raises |-> raises]
             at  == PositionOf(bus.subscribers, subscriber_id)
         IN  [bus EXCEPT !.subscribers = IF at = 0 THEN Append(@, sub)
                                         ELSE [@ EXCEPT ![at] = sub],
                         !.delivered = (subscriber_id :> <<>>) @@ @]

unsubscribe(bus, subscriber_id) ==
    IF PositionOf(bus.subscribers, subscriber_id) = 0 THEN bus
    ELSE [bus EXCEPT !.subscribers = SelectSeq(@, LAMBDA sub : sub.id # subscriber_id),
                     !.delivered = Without(@, subscriber_id)]

publish(bus, event) ==
    LET h == Append(bus.history, event)
    IN  [bus EXCEPT !.history = IF Len(h) > bus.max_history
                                THEN LastN(h, bus.max_history) ELSE h,
                    !.delivered = Notify(bus.delivered, bus.subscribers, 1, event)]

\* A callback may call back into the bus: sub.calls, when present, is the one
\* call it makes, [op |-> "unsubscribe", id] or [op |-> "subscribe", id,
\* event_types].
Reenter(bus, sub) ==
    IF "calls" \notin DOMAIN sub THEN bus
    ELSE IF sub.calls.op = "unsubscribe" THEN unsubscribe(bus, sub.calls.id)
    ELSE subscribe(bus, sub.calls.id, sub.calls.event_types, FALSE)

\* Lines 167-175 with such callbacks: `for ... in self._subscribers.items()`
\* asks the dict iterator for the next entry; the iterator raises
\* RuntimeError (dictionary changed size during iteration) when the dict no
\* longer has the `used` entries it had when the loop began, and that
\* statement is outside the try.  For callbacks that leave the bus alone
\* this is Notify.
RECURSIVE Deliver(_, _, _, _)
Deliver(bus, k, used, event) ==
    IF Len(bus.subscribers) # used THEN [bus |-> bus, raised |-> TRUE]
    ELSE IF k > Len(bus.subscribers) THEN [bus |-> bus, raised |-> FALSE]
    ELSE LET sub    == bus.subscribers[k]
             handed == [bus EXCEPT !.delivered[sub.id] = Append(@, event)]
         IN  IF ~Interested(sub, event.type) THEN Deliver(bus, k + 1, used, event)
             ELSE IF sub.raises THEN Deliver(handed, k + 1, used, event)
             ELSE Deliver(Reenter(handed, sub), k + 1, used, event)

\* Lines 156-178: publish returns True ([bus, raised |-> FALSE]) or lets the
\* RuntimeError of the loop out.
publish_calling_back(bus, event) ==
    LET h == Append(bus.history, event)
        recorded == [bus EXCEPT !.history = IF Len(h) > bus.max_history
                                            THEN LastN(h, bus.max_history) ELSE h]
    IN  Deliver(recorded, 1, Len(bus.subscribers), event)

\* get_history(limit, event_types): limit is None ([none |-> TRUE]) or an int
\* ([int |-> k]); event_types is None or a list ([list |-> <<...>>]), and
\* `if event_types` holds for a list that is not empty.  Event.to_dict copies
\* the four fields of the event.
get_history(bus, limit, event_types) ==
    LET limit1 == IF "none" \in DOMAIN limit \/ limit.int > Len(bus.history)
                  THEN Len(bus.history) ELSE limit.int
        filtered_events ==
            IF "list" \in DOMAIN event_types /\ event_types.list # <<>>
            THEN SelectSeq(bus.history,
                           LAMBDA event : event.type \in Range(event_types.list))
            ELSE bus.history
    IN  LastN(filtered_events, limit1)

\* ------------------------------------------------------------------- state
VARIABLES
    now,                  \* wall clock, whole seconds
    agents,               \* AgentRegistry._agents
    agent_activity,       \* AgentRegistry._agent_activity
    capability_index,     \* AgentRegistry._capability_index
    agent_order,          \* insertion order of AgentRegistry._agents
    conversations,        \* StateManager._conversations
    messages,             \* StateManager._messages
    contexts,             \* StateManager._contexts
    short_term_memory,    \* MemoryStore._short_term_memory
    long_term_memory,     \* MemoryStore._long_term_memory
    condensed_memory,     \* MemoryStore._condensed_memory
    max_short_term_items, \* MemoryStore._max_short_term_items
    max_long_term_items,  \* MemoryStore._max_long_term_items
    subscribers,          \* EventStream._subscribers
    history,              \* EventStream._history
    max_history,          \* EventStream._max_history
    delivered,            \* events handed to each subscriber's callback
    task,                 \* per dispatch: position and locals of route_to_agent
    yielded,              \* per dispatch: items the caller has received
    lines,                \* per dispatch: lines read from the worker's response
    calls,                \* HTTP POSTs made to worker endpoints
    returned,             \* the last component calls with their return values
    appended,             \* per conversation: what add_to_short_term_memory was given
    event_system,         \* EventSystem: _subscribers, _event_history, _max_history_per_type
    publishing,           \* EventSystem.publish coroutines: position and locals
    invoked               \* per subscription id: events its callback was called with

registry_vars == <<agents, agent_activity, capability_index, agent_order>>
state_vars    == <<conversations, messages, contexts>>
memory_vars   == <<short_term_memory, long_term_memory, condensed_memory,
                   max_short_term_items, max_long_term_items>>
bus_vars      == <<subscribers, history, delivered, max_history>>
client_vars   == <<returned, appended>>
system_vars   == <<event_system, publishing, invoked>>
vars == <<now, agents, agent_activity, capability_index, agent_order,
          conversations, messages, contexts, short_term_memory, long_term_memory,
          condensed_memory, max_short_term_items, max_long_term_items,
          subscribers, history, delivered, max_history, task, yielded, lines,
          calls, returned, appended, event_system, publishing, invoked>>

Reg == [agents |-> agents, activity |-> agent_activity, index |-> capability_index,
        order |-> agent_order]
SM  == [conversations |-> conversations, messages |-> messages, contexts |-> contexts]
Mem == [st |-> short_term_memory, lt |-> long_term_memory, cd |-> condensed_memory,
        max_st |-> max_short_term_items, max_lt |-> max_long_term_items]
Bus == [subscribers |-> subscribers, history |-> history, delivered |-> delivered,
        max_history |-> max_history]

SetReg(r) == /\ agents' = r.agents
             /\ agent_activity' = r.activity
             /\ capability_index' = r.index
             /\ agent_order' = r.order
SetSM(s)  == /\ conversations' = s.conversations
             /\ messages' = s.messages
             /\ contexts' = s.contexts
SetMem(m) == /\ short_term_memory' = m.st
             /\ long_term_memory' = m.lt
             /\ condensed_memory' = m.cd
             /\ UNCHANGED <<max_short_term_items, max_long_term_items>>
SetBus(b) == /\ subscribers' = b.subscribers
             /\ history' = b.history
             /\ delivered' = b.delivered
             /\ UNCHANGED max_history

NoInfo == [none |-> TRUE]
NoData == [none |-> TRUE]

IdleTask ==
    [pc |-> "idle", agent |-> None, payload |-> NoData, options |-> EmptyDict,
     security_check |-> [safe |-> TRUE, violations |-> <<>>],
     conversation_id |-> None, agent_info |-> NoInfo,
     supports_streaming |-> FALSE, data |-> NoData,
     failed |-> FALSE]     \* an exception was raised inside the worker call

\* Positions at which route_to_agent is suspended: not started, awaiting the
\* network, handed an item to the caller, or finished.
AwaitPoints == {"post", "read_line", "read_json",
                "legacy_post", "legacy_read_line", "legacy_read_json"}
YieldPoints == {"security_yielded", "chunk_yielded", "result_yielded",
                "error_yielded", "unknown_yielded",
                "legacy_chunk_yielded", "legacy_result_yielded",
                "legacy_error_yielded"}
Suspended == {"idle", "done", "closed"} \cup AwaitPoints \cup YieldPoints

\* The event loop is free: no dispatch is in the middle of synchronous code.
LoopFree == \A d \in DOMAIN task : task[d].pc \in Suspended

\* The components as constructed, with the given capacities.
Components(max_st, max_lt, max_h) ==
    /\ now = 0
    /\ agents = EmptyDict
    /\ agent_activity = EmptyDict
    /\ capability_index = EmptyDict
    /\ agent_order = <<>>
    /\ conversations = EmptyDict
    /\ messages = EmptyDict
    /\ contexts = EmptyDict
    /\ short_term_memory = EmptyDict
    /\ long_term_memory = EmptyDict
    /\ condensed_memory = EmptyDict
    /\ max_short_term_items = max_st
    /\ max_long_term_items = max_lt
    /\ subscribers = <<[id |-> "observer", event_types |-> {"*"}, raises |-> FALSE]>>
    /\ history = <<>>
    /\ max_history = max_h
    /\ delivered = [s \in {"observer"} |-> <<>>]
    /\ calls = <<>>
    /\ returned = <<>>
    /\ appended = EmptyDict
    /\ event_system = [subscribers |-> EmptyDict, event_history |-> EmptyDict,
                       max_history_per_type |-> MaxHistoryPerType]
    /\ publishing = <<>>
    /\ invoked = EmptyDict

\* No call of route_to_agent has been made by any of the given callers.
NotStarted(callers) ==
    /\ task = [d \in callers |-> IdleTask]
    /\ yielded = [d \in callers |-> <<>>]
    /\ lines = [d \in callers |-> <<>>]

Constructed(max_st, max_lt, max_h) ==
    Components(max_st, max_lt, max_h) /\ NotStarted(Dispatches)

Init == Constructed(MaxShortTerm, MaxLongTerm, MaxHistory)

Goto(d, label) == task' = [task EXCEPT ![d].pc = label]

\* An exception is raised; control passes to the handler at `label`.
Raise(d, label) == task' = [task EXCEPT ![d].pc = label, ![d].failed = TRUE]

\* ------------------------------------------------------------- environment
\* Time passes while the event loop is idle.
Tick ==
    /\ LoopFree
    /\ now < MaxClock
    /\ now' = now + 1
    /\ UNCHANGED <<client_vars, system_vars, registry_vars, state_vars, memory_vars, bus_vars,
                   task, yielded, lines, calls>>

NothingStarted == \A d \in DOMAIN task : task[d].pc = "idle"

\* Bootstrap: register_agent, called once per known worker at startup.
RegisterAgent(agent_id) ==
    /\ NothingStarted
    /\ agent_id \notin DOMAIN agents
    /\ \E k \in 1..Len(BootOrder) :
          /\ BootOrder[k] = agent_id
          /\ \A j \in 1..(k - 1) : BootOrder[j] \in DOMAIN agents
    /\ SetReg(register_agent(Reg, agent_id, AgentCatalog[agent_id], now))
    /\ UNCHANGED <<now, client_vars, system_vars, state_vars, memory_vars, bus_vars, task, yielded, lines, calls>>

\* A client opens a conversation through the State Manager before dispatching.
CreateConversation(cid) ==
    /\ NothingStarted
    /\ cid \notin DOMAIN conversations
    /\ SetSM(create_conversation(SM, cid, EmptyDict, now))
    /\ UNCHANGED <<now, client_vars, system_vars, registry_vars, memory_vars, bus_vars, task, yielded, lines, calls>>

\* -------------------------------------------- Router.route_to_agent, entry
\* Variant of RouteStart: the verdict of the gate is computed but the early
\* return is missing, so a rejected request falls through into the try block.
RouteStart_NoReturn(d, agent, payload, options) ==
    /\ task[d].pc = "idle"
    /\ \A e \in DOMAIN task : task[e].pc \in {"idle", "done", "closed"}
    /\ task' = [task EXCEPT ![d] =
                  [pc |-> "resolve_conversation", agent |-> agent, payload |-> payload,
                   options |-> options,
                   security_check |-> validate_request(
                       [agent |-> agent, payload |-> payload,
                        model |-> "gpt-4", options |-> options]),
                   conversation_id |-> "None", agent_info |-> [none |-> TRUE],
                   supports_streaming |-> FALSE, data |-> [none |-> TRUE],
                   failed |-> FALSE]]
    /\ UNCHANGED <<now, client_vars, system_vars, registry_vars, state_vars, memory_vars, bus_vars,
                   yielded, lines, calls>>

\* Lines 62-73: the caller starts iterating; the Security Gate runs.
RouteStart(d, agent, payload, options) ==
    /\ task[d].pc = "idle"
    /\ LoopFree
    /\ LET check == validate_request([agent |-> agent, payload |-> payload,
                                      model |-> DefaultModel, options |-> options])
       IN  task' = [task EXCEPT ![d] =
                      [IdleTask EXCEPT !.pc = IF check.safe THEN "resolve_conversation"
                                                ELSE "security_yield",
                                       !.agent = agent, !.payload = payload,
                                       !.options = options,
                                       !.security_check = check]]
    /\ UNCHANGED <<now, client_vars, system_vars, registry_vars, state_vars, memory_vars, bus_vars,
                   yielded, lines, calls>>

ErrorItem(what) == [error |-> [message |-> what]]

Yield(d, item) == yielded' = [yielded EXCEPT ![d] = Append(@, item)]

\* Line 75: the error item goes to the caller.
SecurityYield(d) ==
    /\ task[d].pc = "security_yield"
    /\ Yield(d, ErrorItem("unsafe_request"))
    /\ Goto(d, "security_yielded")
    /\ UNCHANGED <<now, client_vars, system_vars, registry_vars, state_vars, memory_vars, bus_vars, lines, calls>>

\* Lines 77-92: resumed by the caller asking for the next item.
SecurityPublish(d) ==
    /\ task[d].pc = "security_yielded"
    /\ LoopFree
    /\ SetBus(publish(Bus, Event("security_violation",
                                 [agent |-> task[d].agent, dispatch |-> d,
                                  violations |-> task[d].security_check.violations],
                                 "router", now)))
    /\ Goto(d, "done")
    /\ UNCHANGED <<now, client_vars, system_vars, registry_vars, state_vars, memory_vars, yielded, lines, calls>>

\* ------------------------------------- Router.route_to_agent, lines 94-160
\* Line 96: options.get("conversation_id", f"conv-{int(now)}")
ConversationIdFor(options, t) ==
    IF "conversation_id" \in DOMAIN options THEN options.conversation_id
    ELSE "conv-" \o ToString(t)

\* Variant of ResolveConversation: the request_started event is published
\* right after the conversation is resolved, before the request is recorded.
ResolveConversation_PublishFirst(d) ==
    /\ task[d].pc = "resolve_conversation"
    /\ LET cid == ConversationIdFor(task[d].options, now)
       IN  /\ SetSM(create_conversation(SM, cid, EmptyDict, now))
           /\ task' = [task EXCEPT ![d].conversation_id = cid,
                                   ![d].pc = "publish_started"]
    /\ UNCHANGED <<now, client_vars, system_vars, registry_vars, memory_vars, bus_vars, yielded, lines, calls>>

\* Lines 96-111: get-or-create the conversation.
ResolveConversation(d) ==
    /\ task[d].pc = "resolve_conversation"
    /\ LET cid == ConversationIdFor(task[d].options, now)
       IN  /\ IF cid \notin DOMAIN conversations
              THEN SetSM(create_conversation(SM, cid,
                             [model |-> DefaultModel, started_at |-> now,
                              user_info |-> EmptyDict], now))
              ELSE SetSM(update_conversation(SM, cid,
                             [metadata |-> [last_activity |-> now]], now))
           /\ task' = [task EXCEPT ![d].conversation_id = cid,
                                   ![d].pc = "add_user_message"]
    /\ UNCHANGED <<now, client_vars, system_vars, registry_vars, memory_vars, bus_vars, yielded, lines, calls>>

UserMessage(payload, t) == [role |-> "user", content |-> payload, timestamp |-> t]
RequestItem(payload, t) == [type |-> "request", content |-> payload, timestamp |-> t]

\* Variant of AddUserMessage: the inbound message goes to the log of every
\* conversation the manager holds.
AddUserMessage_Everywhere(d) ==
    /\ task[d].pc = "add_user_message"
    /\ messages' = [cid \in DOMAIN messages |->
                       Append(messages[cid], UserMessage(task[d].payload, now))]
    /\ UNCHANGED <<conversations, contexts>>
    /\ Goto(d, "add_request_memory")
    /\ UNCHANGED <<now, client_vars, system_vars, registry_vars, memory_vars, bus_vars, yielded, lines, calls>>

\* Lines 113-118.
AddUserMessage(d) ==
    /\ task[d].pc = "add_user_message"
    /\ SetSM(add_message(SM, task[d].conversation_id,
                         UserMessage(task[d].payload, now), now))
    /\ Goto(d, "add_request_memory")
    /\ UNCHANGED <<now, client_vars, system_vars, registry_vars, memory_vars, bus_vars, yielded, lines, calls>>

\* Lines 120-129: memory is created lazily, then the request is recorded.
AddRequestMemory(d) ==
    /\ task[d].pc = "add_request_memory"
    /\ LET cid == task[d].conversation_id
           m   == IF cid \notin DOMAIN short_term_memory
                  THEN create_memory(Mem, cid, now) ELSE Mem
       IN  SetMem(add_to_short_term_memory(m, cid, RequestItem(task[d].payload, now)))
    /\ Goto(d, "publish_started")
    /\ UNCHANGED <<now, client_vars, system_vars, registry_vars, state_vars, bus_vars, yielded, lines, calls>>

\* Data common to the router's per-conversation events.
EventData(d, extra) ==
    [conversation_id |-> task[d].conversation_id, agent |-> task[d].agent,
     dispatch |-> d, data |-> extra]

\* Lines 131-141.
PublishStarted(d) ==
    /\ task[d].pc = "publish_started"
    /\ SetBus(publish(Bus, Event("request_started", EventData(d, NoData), "router", now)))
    /\ Goto(d, "lookup")
    /\ UNCHANGED <<now, client_vars, system_vars, registry_vars, state_vars, memory_vars, yielded, lines, calls>>

\* AgentRegistry.get_agent: lookup by id only.
get_agent(reg, agent_id) ==
    IF agent_id \in DOMAIN reg.agents THEN reg.agents[agent_id] ELSE NoInfo

\* Variant of Lookup: a well-known legacy name goes to the legacy table even
\* when the Registry holds an entry under that id.
Lookup_LegacyFirst(d) ==
    /\ task[d].pc = "lookup"
    /\ LET info == get_agent(Reg, task[d].agent)
           old  == task[d].agent \in {"ThinkerAgent", "SearchAgent", "FileAgent",
                                      "AuthAgent", "NotifyAgent"}
       IN  task' = [task EXCEPT ![d].agent_info = info,
                                ![d].pc = IF old \/ info = NoInfo THEN "legacy_check"
                                          ELSE "set_active"]
    /\ UNCHANGED <<now, client_vars, system_vars, registry_vars, state_vars, memory_vars, bus_vars,
                   yielded, lines, calls>>

\* Lines 145-152: registry lookup; the legacy table is the fallback.
Lookup(d) ==
    /\ task[d].pc = "lookup"
    /\ LET info == get_agent(Reg, task[d].agent)
       IN  task' = [task EXCEPT ![d].agent_info = info,
                                ![d].pc = IF info = NoInfo THEN "legacy_check"
                                          ELSE "set_active"]
    /\ UNCHANGED <<now, client_vars, system_vars, registry_vars, state_vars, memory_vars, bus_vars,
                   yielded, lines, calls>>

\* Lines 154-157.
SetActive(d) ==
    /\ task[d].pc = "set_active"
    /\ SetSM(update_conversation(SM, task[d].conversation_id,
                                 [active_agent |-> task[d].agent], now))
    /\ Goto(d, "update_activity")
    /\ UNCHANGED <<now, client_vars, system_vars, registry_vars, memory_vars, bus_vars, yielded, lines, calls>>

\* Lines 159-163.
UpdateActivity(d) ==
    /\ task[d].pc = "update_activity"
    /\ SetReg(update_agent_activity(Reg, task[d].agent, now))
    /\ task' = [task EXCEPT ![d].supports_streaming =
                                task[d].agent_info.supports_streaming,
                            ![d].pc = "send"]
    /\ UNCHANGED <<now, client_vars, system_vars, state_vars, memory_vars, bus_vars, yielded, lines, calls>>

Call(d, url, stream, via) ==
    [dispatch |-> d, url |-> url, stream |-> stream, via |-> via,
     conversation_id |-> task[d].conversation_id, payload |-> task[d].payload]

\* Lines 165-184: POST <url>/process is issued; the dispatch awaits the reply.
Send(d) ==
    /\ task[d].pc = "send"
    /\ calls' = Append(calls, Call(d, task[d].agent_info.url,
                                   task[d].supports_streaming, "registry"))
    /\ Goto(d, "post")
    /\ UNCHANGED <<now, client_vars, system_vars, registry_vars, state_vars, memory_vars, bus_vars, yielded, lines>>

\* Line 180: the POST returns a response, or raises (connection failure).
PostReturns(d, ok) ==
    /\ task[d].pc = "post"
    /\ LoopFree
    /\ IF ok
       THEN Goto(d, IF task[d].supports_streaming THEN "read_line" ELSE "read_json")
       ELSE Raise(d, "publish_error")
    /\ UNCHANGED <<now, client_vars, system_vars, registry_vars, state_vars, memory_vars, bus_vars,
                   yielded, lines, calls>>

\* ------------------------------------------------ worker response contents
\* A line of a streaming response.  Object lines carry the line's ordinal, so
\* that any two items of one response differ.
ObjectKinds == {"content", "plain", "error"}
SkippedKinds == {"blank", "badjson"}      \* `continue` / json.JSONDecodeError
RaisingKinds == {"badutf8"}               \* UnicodeDecodeError
LineKinds == ObjectKinds \cup SkippedKinds \cup RaisingKinds

\* json.loads of an object line.
Item(kind, n) ==
    CASE kind = "content" -> [content |-> [chunk |-> n]]
      [] kind = "plain"   -> [status |-> [chunk |-> n]]
      [] kind = "error"   -> [error |-> [chunk |-> n]]

\* data.get("content", data)
ContentOrAll(data) == IF "content" \in DOMAIN data THEN data.content ELSE data

ReadPoint(d, await, yield) ==
    /\ task[d].pc \in {await, yield}
    /\ LoopFree

\* Where one line of the stream leaves the loop of lines 187-217.
AfterLine(kind, mirror, loop, raise) ==
    IF kind \in ObjectKinds THEN mirror
    ELSE IF kind \in SkippedKinds THEN loop
    ELSE raise

\* ---------------------------- Router.route_to_agent, streaming (185-217)
\* Lines 187-193: the next line arrives, is decoded, stripped and parsed.
ReadLine(d, kind) ==
    /\ ReadPoint(d, "read_line", "chunk_yielded")
    /\ Len(lines[d]) < MaxLines
    /\ lines' = [lines EXCEPT ![d] = Append(@, [kind |-> kind, n |-> Len(@) + 1])]
    /\ task' = [task EXCEPT
                   ![d].data = IF kind \in ObjectKinds
                               THEN Item(kind, Len(lines[d]) + 1) ELSE @,
                   ![d].failed = kind \in RaisingKinds,
                   ![d].pc = AfterLine(kind, "mirror_chunk", "read_line",
                                       "publish_error")]
    /\ UNCHANGED <<now, client_vars, system_vars, registry_vars, state_vars, memory_vars, bus_vars, yielded, calls>>

\* Line 187: the response body ends.
EndOfStream(d) ==
    /\ ReadPoint(d, "read_line", "chunk_yielded")
    /\ Goto(d, "finish")
    /\ UNCHANGED <<now, client_vars, system_vars, registry_vars, state_vars, memory_vars, bus_vars,
                   yielded, lines, calls>>

\* Line 187: the connection drops while the body is being read.
ReadLineFails(d) ==
    /\ ReadPoint(d, "read_line", "chunk_yielded")
    /\ Raise(d, "publish_error")
    /\ UNCHANGED <<now, client_vars, system_vars, registry_vars, state_vars, memory_vars, bus_vars,
                   yielded, lines, calls>>

ChunkItem(type, content, t) == [type |-> type, content |-> content, timestamp |-> t]

\* Variant of MirrorChunk: the chunk is relayed without the memory write.
MirrorChunk_Skip(d) ==
    /\ task[d].pc = "mirror_chunk"
    /\ Goto(d, "publish_chunk")
    /\ UNCHANGED <<now, client_vars, system_vars, registry_vars, state_vars, memory_vars, bus_vars,
                   yielded, lines, calls>>

\* Lines 195-201.
MirrorChunk(d) ==
    /\ task[d].pc = "mirror_chunk"
    /\ IF "content" \in DOMAIN task[d].data
       THEN SetMem(add_to_short_term_memory(Mem, task[d].conversation_id,
                       ChunkItem("response_chunk", task[d].data.content, now)))
       ELSE UNCHANGED memory_vars
    /\ Goto(d, "publish_chunk")
    /\ UNCHANGED <<now, client_vars, system_vars, registry_vars, state_vars, bus_vars, yielded, lines, calls>>

\* Variant of PublishChunk: the chunk is also appended to the message log as
\* an assistant message, as the non-streaming branch does with its result.
PublishChunk_Logged(d) ==
    /\ task[d].pc = "publish_chunk"
    /\ SetBus(publish(Bus, Event("response_chunk", EventData(d, task[d].data),
                                 "router", now)))
    /\ SetSM(add_message(SM, task[d].conversation_id,
                         [role |-> "assistant", content |-> task[d].data,
                          timestamp |-> now], now))
    /\ Goto(d, "yield_chunk")
    /\ UNCHANGED <<now, client_vars, system_vars, registry_vars, memory_vars, yielded, lines, calls>>

\* Lines 203-213.
PublishChunk(d) ==
    /\ task[d].pc = "publish_chunk"
    /\ SetBus(publish(Bus, Event("response_chunk", EventData(d, task[d].data),
                                 "router", now)))
    /\ Goto(d, "yield_chunk")
    /\ UNCHANGED <<now, client_vars, system_vars, registry_vars, state_vars, memory_vars, yielded, lines, calls>>

\* Line 215.
YieldChunk(d) ==
    /\ task[d].pc = "yield_chunk"
    /\ Yield(d, task[d].data)
    /\ Goto(d, "chunk_yielded")
    /\ UNCHANGED <<now, client_vars, system_vars, registry_vars, state_vars, memory_vars, bus_vars, lines, calls>>

\* ------------------------ Router.route_to_agent, non-streaming (218-248)
\* Line 220: response.json() returns an object.
ReadJson(d, kind) ==
    /\ task[d].pc = "read_json"
    /\ LoopFree
    /\ lines' = [lines EXCEPT ![d] = Append(@, [kind |-> kind, n |-> 1])]
    /\ task' = [task EXCEPT ![d].data = Item(kind, 1),
                            ![d].pc = "add_assistant_message"]
    /\ UNCHANGED <<now, client_vars, system_vars, registry_vars, state_vars, memory_vars, bus_vars, yielded, calls>>

\* Lines 220-225: the body is no JSON object, or the connection drops.
ReadJsonFails(d) ==
    /\ task[d].pc = "read_json"
    /\ LoopFree
    /\ Raise(d, "publish_error")
    /\ UNCHANGED <<now, client_vars, system_vars, registry_vars, state_vars, memory_vars, bus_vars,
                   yielded, lines, calls>>

AssistantMessage(data, t) ==
    [role |-> "assistant", content |-> ContentOrAll(data), timestamp |-> t]

\* Lines 222-227.
AddAssistantMessage(d) ==
    /\ task[d].pc = "add_assistant_message"
    /\ SetSM(add_message(SM, task[d].conversation_id,
                         AssistantMessage(task[d].data, now), now))
    /\ Goto(d, "add_response_memory")
    /\ UNCHANGED <<now, client_vars, system_vars, registry_vars, memory_vars, bus_vars, yielded, lines, calls>>

\* Variant of AddResponseMemory: the result is announced and yielded without
\* the memory write.
AddResponseMemory_Skip(d) ==
    /\ task[d].pc = "add_response_memory"
    /\ Goto(d, "publish_complete")
    /\ UNCHANGED <<now, client_vars, system_vars, registry_vars, state_vars, memory_vars, bus_vars,
                   yielded, lines, calls>>

\* Lines 229-234.
AddResponseMemory(d) ==
    /\ task[d].pc = "add_response_memory"
    /\ SetMem(add_to_short_term_memory(Mem, task[d].conversation_id,
                  ChunkItem("response", ContentOrAll(task[d].data), now)))
    /\ Goto(d, "publish_complete")
    /\ UNCHANGED <<now, client_vars, system_vars, registry_vars, state_vars, bus_vars, yielded, lines, calls>>

\* Lines 236-246.
PublishComplete(d) ==
    /\ task[d].pc = "publish_complete"
    /\ SetBus(publish(Bus, Event("response_complete", EventData(d, task[d].data),
                                 "router", now)))
    /\ Goto(d, "yield_result")
    /\ UNCHANGED <<now, client_vars, system_vars, registry_vars, state_vars, memory_vars, yielded, lines, calls>>

\* Line 248.
YieldResult(d) ==
    /\ task[d].pc = "yield_result"
    /\ Yield(d, task[d].data)
    /\ Goto(d, "result_yielded")
    /\ UNCHANGED <<now, client_vars, system_vars, registry_vars, state_vars, memory_vars, bus_vars, lines, calls>>

\* ----------------------- Router.route_to_agent, completion and failure
\* Lines 250-256: reached when the stream ends, or when the caller asks for
\* the item after the single result.
Finish(d) ==
    /\ \/ task[d].pc = "finish"
       \/ task[d].pc = "result_yielded" /\ LoopFree
    /\ SetSM(update_conversation(SM, task[d].conversation_id,
                 [metadata |-> [last_response |-> now], active_agent |-> None], now))
    /\ Goto(d, "done")
    /\ UNCHANGED <<now, client_vars, system_vars, registry_vars, memory_vars, bus_vars, yielded, lines, calls>>

\* Variant of PublishError: the handler also discards what the dispatch wrote,
\* dropping the conversation and its memory.
PublishError_Rollback(d) ==
    /\ task[d].pc = "publish_error"
    /\ SetBus(publish(Bus, Event("agent_error", EventData(d, NoData), "router", now)))
    /\ SetSM(delete_conversation(SM, task[d].conversation_id))
    /\ SetMem(delete_memory(Mem, task[d].conversation_id))
    /\ Goto(d, "yield_error")
    /\ UNCHANGED <<now, client_vars, system_vars, registry_vars, yielded, lines, calls>>

\* Lines 258-271: except Exception around the worker call.
PublishError(d) ==
    /\ task[d].pc = "publish_error"
    /\ SetBus(publish(Bus, Event("agent_error", EventData(d, NoData), "router", now)))
    /\ Goto(d, "yield_error")
    /\ UNCHANGED <<now, client_vars, system_vars, registry_vars, state_vars, memory_vars, yielded, lines, calls>>

\* Line 273.
YieldError(d) ==
    /\ task[d].pc = "yield_error"
    /\ Yield(d, ErrorItem("agent_failed"))
    /\ Goto(d, "error_yielded")
    /\ UNCHANGED <<now, client_vars, system_vars, registry_vars, state_vars, memory_vars, bus_vars, lines, calls>>

\* Variant of Return: the generator, resumed after its last yield, stays
\* where it is.
Return_Stay(d) ==
    /\ task[d].pc \in {"error_yielded", "unknown_yielded",
                       "legacy_result_yielded", "legacy_error_yielded"}
    /\ LoopFree
    /\ UNCHANGED vars

\* The generator is resumed after its last yield and returns.
Return(d) ==
    /\ task[d].pc \in {"error_yielded", "unknown_yielded",
                       "legacy_result_yielded", "legacy_error_yielded"}
    /\ LoopFree
    /\ Goto(d, "done")
    /\ UNCHANGED <<now, client_vars, system_vars, registry_vars, state_vars, memory_vars, bus_vars,
                   yielded, lines, calls>>

\* The caller stops consuming (aclose / cancellation): GeneratorExit and
\* CancelledError are not Exceptions, so no handler of the router runs.
Abandon(d) ==
    /\ task[d].pc \in AwaitPoints \cup YieldPoints
    /\ LoopFree
    /\ Goto(d, "closed")
    /\ UNCHANGED <<now, client_vars, system_vars, registry_vars, state_vars, memory_vars, bus_vars,
                   yielded, lines, calls>>

\* --------------------------------------------- Router._route_legacy_agent
AGENT_URLS ==
    [ ThinkerAgent |-> "http://thinker:3001", SearchAgent |-> "http://search:3002",
      FileAgent |-> "http://file:5002", AuthAgent |-> "http://auth:3003",
      NotifyAgent |-> "http://notify:3004" ]

LegacyStreaming == {"ThinkerAgent", "SearchAgent"}

\* Lines 304-306.
LegacyCheck(d) ==
    /\ task[d].pc = "legacy_check"
    /\ IF task[d].agent \notin DOMAIN AGENT_URLS
       THEN /\ Yield(d, ErrorItem("unknown_agent"))
            /\ Goto(d, "unknown_yielded")
       ELSE /\ UNCHANGED yielded
            /\ Goto(d, "legacy_publish")
    /\ UNCHANGED <<now, client_vars, system_vars, registry_vars, state_vars, memory_vars, bus_vars, lines, calls>>

\* Lines 311-323.
LegacyPublish(d) ==
    /\ task[d].pc = "legacy_publish"
    /\ SetBus(publish(Bus, Event("legacy_system_used", EventData(d, NoData),
                                 "router", now)))
    /\ task' = [task EXCEPT ![d].supports_streaming = task[d].agent \in LegacyStreaming,
                            ![d].pc = "legacy_send"]
    /\ UNCHANGED <<now, client_vars, system_vars, registry_vars, state_vars, memory_vars, yielded, lines, calls>>

\* Lines 325-344.
LegacySend(d) ==
    /\ task[d].pc = "legacy_send"
    /\ calls' = Append(calls, Call(d, AGENT_URLS[task[d].agent],
                                   task[d].supports_streaming, "legacy"))
    /\ Goto(d, "legacy_post")
    /\ UNCHANGED <<now, client_vars, system_vars, registry_vars, state_vars, memory_vars, bus_vars, yielded, lines>>

\* Line 340.
LegacyPostReturns(d, ok) ==
    /\ task[d].pc = "legacy_post"
    /\ LoopFree
    /\ IF ok
       THEN Goto(d, IF task[d].supports_streaming THEN "legacy_read_line"
                    ELSE "legacy_read_json")
       ELSE Raise(d, "legacy_yield_error")
    /\ UNCHANGED <<now, client_vars, system_vars, registry_vars, state_vars, memory_vars, bus_vars,
                   yielded, lines, calls>>

\* Lines 347-353.
LegacyReadLine(d, kind) ==
    /\ ReadPoint(d, "legacy_read_line", "legacy_chunk_yielded")
    /\ Len(lines[d]) < MaxLines
    /\ lines' = [lines EXCEPT ![d] = Append(@, [kind |-> kind, n |-> Len(@) + 1])]
    /\ task' = [task EXCEPT
                   ![d].data = IF kind \in ObjectKinds
                               THEN Item(kind, Len(lines[d]) + 1) ELSE @,
                   ![d].failed = kind \in RaisingKinds,
                   ![d].pc = AfterLine(kind, "legacy_mirror_chunk", "legacy_read_line",
                                       "legacy_yield_error")]
    /\ UNCHANGED <<now, client_vars, system_vars, registry_vars, state_vars, memory_vars, bus_vars, yielded, calls>>

\* Line 347: the body ends; the inner generator and route_to_agent return.
LegacyEndOfStream(d) ==
    /\ ReadPoint(d, "legacy_read_line", "legacy_chunk_yielded")
    /\ Goto(d, "done")
    /\ UNCHANGED <<now, client_vars, system_vars, registry_vars, state_vars, memory_vars, bus_vars,
                   yielded, lines, calls>>

\* Line 347 / 368: the connection drops, or the body is not JSON.
LegacyReadFails(d) ==
    /\ \/ ReadPoint(d, "legacy_read_line", "legacy_chunk_yielded")
       \/ task[d].pc = "legacy_read_json" /\ LoopFree
    /\ Raise(d, "legacy_yield_error")
    /\ UNCHANGED <<now, client_vars, system_vars, registry_vars, state_vars, memory_vars, bus_vars,
                   yielded, lines, calls>>

\* Lines 355-361.
LegacyMirrorChunk(d) ==
    /\ task[d].pc = "legacy_mirror_chunk"
    /\ IF "content" \in DOMAIN task[d].data
       THEN SetMem(add_to_short_term_memory(Mem, task[d].conversation_id,
                       ChunkItem("legacy_response_chunk", task[d].data.content, now)))
       ELSE UNCHANGED memory_vars
    /\ Goto(d, "legacy_yield_chunk")
    /\ UNCHANGED <<now, client_vars, system_vars, registry_vars, state_vars, bus_vars, yielded, lines, calls>>

\* Line 363.
LegacyYieldChunk(d) ==
    /\ task[d].pc = "legacy_yield_chunk"
    /\ Yield(d, task[d].data)
    /\ Goto(d, "legacy_chunk_yielded")
    /\ UNCHANGED <<now, client_vars, system_vars, registry_vars, state_vars, memory_vars, bus_vars, lines, calls>>

\* Line 368.
LegacyReadJson(d, kind) ==
    /\ task[d].pc = "legacy_read_json"
    /\ LoopFree
    /\ lines' = [lines EXCEPT ![d] = Append(@, [kind |-> kind, n |-> 1])]
    /\ task' = [task EXCEPT ![d].data = Item(kind, 1),
                            ![d].pc = "legacy_add_memory"]
    /\ UNCHANGED <<now, client_vars, system_vars, registry_vars, state_vars, memory_vars, bus_vars, yielded, calls>>

\* Lines 370-377: the whole object is recorded, then yielded.
LegacyAddMemory(d) ==
    /\ task[d].pc = "legacy_add_memory"
    /\ SetMem(add_to_short_term_memory(Mem, task[d].conversation_id,
                  ChunkItem("legacy_response", task[d].data, now)))
    /\ Yield(d, task[d].data)
    /\ Goto(d, "legacy_result_yielded")
    /\ UNCHANGED <<now, client_vars, system_vars, registry_vars, state_vars, bus_vars, lines, calls>>

\* Lines 379-381: no event is published on this path.
LegacyYieldError(d) ==
    /\ task[d].pc = "legacy_yield_error"
    /\ Yield(d, ErrorItem("agent_failed"))
    /\ Goto(d, "legacy_error_yielded")
    /\ UNCHANGED <<now, client_vars, system_vars, registry_vars, state_vars, memory_vars, bus_vars, lines, calls>>

\* ------------------------------------------------------------ specification
\* Every step of route_to_agent after its entry.
RouteRun(d) ==
    \/ SecurityYield(d) \/ SecurityPublish(d)
    \/ ResolveConversation(d) \/ AddUserMessage(d) \/ AddRequestMemory(d)
    \/ PublishStarted(d) \/ Lookup(d) \/ SetActive(d) \/ UpdateActivity(d)
    \/ Send(d) \/ \E ok \in BOOLEAN : PostReturns(d, ok)
    \/ \E k \in LineKinds : ReadLine(d, k)
    \/ EndOfStream(d) \/ ReadLineFails(d)
    \/ MirrorChunk(d) \/ PublishChunk(d) \/ YieldChunk(d)
    \/ \E k \in ObjectKinds : ReadJson(d, k)
    \/ ReadJsonFails(d)
    \/ AddAssistantMessage(d) \/ AddResponseMemory(d) \/ PublishComplete(d)
    \/ YieldResult(d) \/ Finish(d) \/ PublishError(d) \/ YieldError(d)
    \/ Return(d)

RouteStep(d) ==
    \/ \E a \in Targets, p \in Payloads, o \in OptionsSet : RouteStart(d, a, p, o)
    \/ RouteRun(d)

LegacyStep(d) ==
    \/ LegacyCheck(d) \/ LegacyPublish(d) \/ LegacySend(d)
    \/ \E ok \in BOOLEAN : LegacyPostReturns(d, ok)
    \/ \E k \in LineKinds : LegacyReadLine(d, k)
    \/ LegacyEndOfStream(d) \/ LegacyReadFails(d)
    \/ LegacyMirrorChunk(d) \/ LegacyYieldChunk(d)
    \/ \E k \in ObjectKinds : LegacyReadJson(d, k)
    \/ LegacyAddMemory(d) \/ LegacyYieldError(d)

Next ==
    \/ Tick
    \/ \E a \in DOMAIN AgentCatalog : RegisterAgent(a)
    \/ CreateConversation("c1")
    \/ \E d \in Dispatches : RouteStep(d) \/ LegacyStep(d)

Spec == Init /\ [][Next]_vars

\* -------------------------------------------------- concurrent dispatches
\* Two callers dispatch to registered workers at the same time, each naming
\* conversation c1 or c2 or none; the workers answer with content.
Callers == {"d1", "d2"}
OConv2 == [conversation_id |-> "c2"]
CallerOptions == {OConv, OConv2, EmptyDict}

ConcurrentStart(d) ==
    /\ DOMAIN AgentCatalog \subseteq DOMAIN agents
    /\ \E a \in DOMAIN AgentCatalog, o \in CallerOptions : RouteStart(d, a, PText, o)

ConcurrentRun(d) ==
    \/ ResolveConversation(d) \/ AddUserMessage(d) \/ AddRequestMemory(d)
    \/ PublishStarted(d) \/ Lookup(d) \/ SetActive(d) \/ UpdateActivity(d)
    \/ Send(d) \/ \E ok \in BOOLEAN : PostReturns(d, ok)
    \/ ReadLine(d, "content") \/ EndOfStream(d)
    \/ MirrorChunk(d) \/ PublishChunk(d) \/ YieldChunk(d)
    \/ ReadJson(d, "content")
    \/ AddAssistantMessage(d) \/ AddResponseMemory(d) \/ PublishComplete(d)
    \/ YieldResult(d) \/ Finish(d) \/ PublishError(d) \/ YieldError(d)
    \/ Return(d)

InitConcurrent ==
    Components(MaxShortTerm, MaxLongTerm, MaxHistory) /\ NotStarted(Callers)

NextConcurrent ==
    \/ Tick
    \/ \E a \in DOMAIN AgentCatalog : RegisterAgent(a)
    \/ \E d \in Callers : ConcurrentStart(d) \/ ConcurrentRun(d)

SpecConcurrent == InitConcurrent /\ [][NextConcurrent]_vars

\* ------------------------------------------------ MemoryStore, called directly
\* A client drives one MemoryStore through its public methods.  `returned`
\* keeps the last call with its return value, preceded by the call before it
\* when that was the same call on the same argument; appended[cid] keeps what
\* the client gave to add_to_short_term_memory since the memory of cid was
\* created or cleared, and whether that is all that was done to it.
MemoryIds == {"c1"}

Returned(op, arg, value) ==
    LET call == [op |-> op, arg |-> arg, value |-> value]
        same == /\ returned # <<>>
                /\ returned[Len(returned)].op = op
                /\ returned[Len(returned)].arg = arg
    IN  returned' = IF same THEN <<returned[Len(returned)], call>> ELSE <<call>>

FreshLog == [items |-> <<>>, only |-> TRUE, adds |-> 0]
Adds(cid) == IF cid \in DOMAIN appended THEN appended[cid].adds ELSE 0

\* The k-th item the client adds to a conversation's memory.
\* Its content is the str "N" * k.
Note(k) == [type |-> "note", content |-> StrVal([i \in 1..k |-> "N"])]

\* Items whose content is not a str.
ImportedItems == [k \in 1..MaxImport |-> [type |-> "imported", content |-> IntVal(k)]]

\* The queries a client searches for: "n", "NN", "x".
Queries == {<<"n">>, <<"N", "N">>, <<"x">>}

\* Snapshots a client imports: one taken from a store built with larger
\* capacities, one with the conversation id only, one without an id.
ImportData(cid) ==
    { [conversation_id |-> cid, short_term |-> ImportedItems,
       long_term |-> ImportedItems,
       condensed |-> [summary |-> "s", key_points |-> <<>>, last_updated |-> 0]],
      [conversation_id |-> cid],
      [short_term |-> ImportedItems] }

MemoryRest == <<now, system_vars, registry_vars, state_vars, bus_vars, task, yielded, lines, calls>>

MemoryCreate(cid) ==
    /\ SetMem(create_memory(Mem, cid, now))
    /\ Returned("create_memory", cid, get_memory(create_memory(Mem, cid, now), cid))
    /\ appended' = IF cid \in DOMAIN short_term_memory THEN appended
                   ELSE (cid :> FreshLog) @@ appended
    /\ UNCHANGED MemoryRest

MemoryAddShortTerm(cid) ==
    /\ Adds(cid) < MaxAdds
    /\ LET item == Note(Adds(cid) + 1)
       IN  /\ SetMem(add_to_short_term_memory(Mem, cid, item))
           /\ Returned("add_to_short_term_memory", cid, cid \in DOMAIN short_term_memory)
           /\ appended' = IF cid \notin DOMAIN short_term_memory THEN appended
                          ELSE [appended EXCEPT ![cid].items = Append(@, item),
                                                ![cid].adds = @ + 1]
    /\ UNCHANGED MemoryRest

MemoryAddLongTerm(cid) ==
    /\ Adds(cid) < MaxAdds
    /\ SetMem(add_to_long_term_memory(Mem, cid, Note(Adds(cid) + 1)))
    /\ Returned("add_to_long_term_memory", cid, cid \in DOMAIN long_term_memory)
    /\ appended' = IF cid \notin DOMAIN long_term_memory THEN appended
                   ELSE [appended EXCEPT ![cid].only = FALSE, ![cid].adds = @ + 1]
    /\ UNCHANGED MemoryRest

MemoryUpdateCondensed(cid, summary) ==
    /\ SetMem(update_condensed_memory(Mem, cid, summary, None, now))
    /\ Returned("update_condensed_memory", cid, cid \in DOMAIN condensed_memory)
    /\ UNCHANGED <<appended, MemoryRest>>

MemoryClear(cid) ==
    /\ SetMem(clear_memory(Mem, cid, now))
    /\ Returned("clear_memory", cid, cid \in DOMAIN short_term_memory)
    /\ appended' = IF cid \notin DOMAIN short_term_memory THEN appended
                   ELSE [appended EXCEPT ![cid] = FreshLog]
    /\ UNCHANGED MemoryRest

MemoryDelete(cid) ==
    /\ SetMem(delete_memory(Mem, cid))
    /\ Returned("delete_memory", cid, cid \in DOMAIN short_term_memory)
    /\ appended' = Without(appended, cid)
    /\ UNCHANGED MemoryRest

MemoryImport(memory_data) ==
    /\ SetMem(import_memory(Mem, memory_data, now))
    /\ Returned("import_memory", GetOr(memory_data, "conversation_id", None),
                "conversation_id" \in DOMAIN memory_data)
    /\ appended' = IF "conversation_id" \notin DOMAIN memory_data THEN appended
                   ELSE (memory_data.conversation_id :>
                            [items |-> <<>>, only |-> FALSE, adds |-> 0]) @@ appended
    /\ UNCHANGED MemoryRest

MemoryGet(cid) ==
    /\ Returned("get_memory", cid, get_memory(Mem, cid))
    /\ UNCHANGED <<memory_vars, appended, MemoryRest>>

MemorySearch(cid, query) ==
    /\ Returned("search_memory", cid, search_memory(Mem, cid, query))
    /\ UNCHANGED <<memory_vars, appended, MemoryRest>>

\* MemoryStore(max_short_term_items, max_long_term_items): any capacities.
InitMemory ==
    \E max_st \in 0..MaxShortTerm, max_lt \in 0..MaxLongTerm :
        Constructed(max_st, max_lt, MaxHistory)

NextMemory ==
    \/ \E cid \in MemoryIds : MemoryCreate(cid)
    \/ \E cid \in MemoryIds : MemoryAddShortTerm(cid)
    \/ \E cid \in MemoryIds : MemoryAddLongTerm(cid)
    \/ \E cid \in MemoryIds : MemoryUpdateCondensed(cid, "s")
    \/ \E cid \in MemoryIds : MemoryClear(cid)
    \/ \E cid \in MemoryIds : MemoryDelete(cid)
    \/ \E cid \in MemoryIds : \E memory_data \in ImportData(cid) : MemoryImport(memory_data)
    \/ \E cid \in MemoryIds : MemoryGet(cid)
    \/ \E cid \in MemoryIds : \E query \in Queries : MemorySearch(cid, query)

SpecMemory == InitMemory /\ [][NextMemory]_vars

\* One MemoryStore holding the memories of two conversations.
TierIds == {"c1", "c2"}

NextTiers ==
    \/ \E cid \in TierIds : MemoryCreate(cid)
    \/ \E cid \in TierIds : MemoryAddShortTerm(cid)
    \/ \E cid \in TierIds : MemoryAddLongTerm(cid)
    \/ \E cid \in TierIds : MemoryUpdateCondensed(cid, "s")
    \/ \E cid \in TierIds : MemoryClear(cid)
    \/ \E cid \in TierIds : MemoryDelete(cid)
    \/ \E cid \in TierIds : MemoryGet(cid)

SpecTiers == Init /\ [][NextTiers]_vars

\* ----------------------------------------------- StateManager, called directly
\* A client drives one StateManager through its public methods; the call and
\* its return value go to `returned`.
StateIds == {"c1"}
Metadatas == {[topic |-> "a"], [topic |-> "b"]}
LifecycleStates == {"active", "archived"}

\* The updates a client passes to update_conversation.
Updates ==
    {[state |-> s] : s \in LifecycleStates}
    \cup {[metadata |-> [k |-> "v"]], [active_agent |-> "w1"]}

Contexts == {[lang |-> "ar"], [lang |-> "en", topic |-> "a"]}

\* Snapshots a client imports into the manager: a full one, one with the id
\* only, one without an id.
ImportConversations(cid) ==
    { [id |-> cid, state |-> "archived", created_at |-> 0, active_agent |-> "None",
       metadata |-> [topic |-> "b"],
       messages |-> <<[role |-> "user", content |-> 1]>>,
       context |-> [lang |-> "ar"]],
      [id |-> cid],
      [state |-> "archived"] }

StateRest == <<system_vars, registry_vars, memory_vars, bus_vars, task, yielded, lines, calls, appended>>

StateCreate(cid, metadata) ==
    /\ LoopFree
    /\ SetSM(create_conversation(SM, cid, metadata, now))
    /\ Returned("create_conversation", cid,
                  create_conversation(SM, cid, metadata, now).conversations[cid])
    /\ UNCHANGED <<now, StateRest>>

StateUpdate(cid, updates) ==
    /\ LoopFree
    /\ SetSM(update_conversation(SM, cid, updates, now))
    /\ Returned("update_conversation", cid,
                  IF cid \in DOMAIN conversations
                  THEN update_conversation(SM, cid, updates, now).conversations[cid]
                  ELSE [none |-> TRUE])
    /\ UNCHANGED <<now, StateRest>>

StateAddMessage(cid) ==
    /\ LoopFree
    /\ cid \in DOMAIN messages => Len(messages[cid]) < MaxMessages
    /\ LET k == IF cid \in DOMAIN messages THEN Len(messages[cid]) + 1 ELSE 1
       IN  SetSM(add_message(SM, cid, [role |-> "user", content |-> k], now))
    /\ Returned("add_message", cid, cid \in DOMAIN conversations)
    /\ UNCHANGED <<now, StateRest>>

StateSetContext(cid, context) ==
    /\ LoopFree
    /\ SetSM(set_context(SM, cid, context, now))
    /\ Returned("set_context", cid, cid \in DOMAIN conversations)
    /\ UNCHANGED <<now, StateRest>>

StateUpdateContext(cid, updates) ==
    /\ LoopFree
    /\ SetSM(update_context(SM, cid, updates, now))
    /\ Returned("update_context", cid,
                  IF cid \in DOMAIN conversations
                  THEN update_context(SM, cid, updates, now).contexts[cid]
                  ELSE [none |-> TRUE])
    /\ UNCHANGED <<now, StateRest>>

StateDelete(cid) ==
    /\ LoopFree
    /\ SetSM(delete_conversation(SM, cid))
    /\ Returned("delete_conversation", cid, cid \in DOMAIN conversations)
    /\ UNCHANGED <<now, StateRest>>

StateExport(cid) ==
    /\ LoopFree
    /\ Returned("export_conversation", cid, export_conversation(SM, cid))
    /\ UNCHANGED <<now, state_vars, StateRest>>

StateImport(conversation_data) ==
    /\ LoopFree
    /\ SetSM(import_conversation(SM, conversation_data, now))
    /\ Returned("import_conversation",
                  IF "id" \in DOMAIN conversation_data THEN conversation_data.id ELSE None,
                  "id" \in DOMAIN conversation_data)
    /\ UNCHANGED <<now, StateRest>>

\* A StateManager as constructed.
FreshStateManager ==
    [conversations |-> EmptyDict, messages |-> EmptyDict, contexts |-> EmptyDict]

\* other = StateManager(); other.import_conversation(sm.export_conversation(cid)):
\* `returned` gets the other manager as the import leaves it.
StateRoundTrip(cid) ==
    /\ LoopFree
    /\ cid \in DOMAIN conversations
    /\ Returned("round_trip", cid,
                  import_conversation(FreshStateManager, export_conversation(SM, cid), now))
    /\ UNCHANGED <<now, state_vars, StateRest>>

NextState ==
    \/ Tick
    \/ \E cid \in StateIds : \E metadata \in Metadatas : StateCreate(cid, metadata)
    \/ \E cid \in StateIds : \E updates \in Updates : StateUpdate(cid, updates)
    \/ \E cid \in StateIds : StateAddMessage(cid)
    \/ \E cid \in StateIds : \E context \in Contexts : StateSetContext(cid, context)
    \/ \E cid \in StateIds : \E updates \in Contexts : StateUpdateContext(cid, updates)
    \/ \E cid \in StateIds : StateDelete(cid)
    \/ \E cid \in StateIds : StateExport(cid)
    \/ \E cid \in StateIds : \E data \in ImportConversations(cid) : StateImport(data)
    \/ \E cid \in StateIds : StateRoundTrip(cid)

SpecState == Init /\ [][NextState]_vars

\* ----------------------------------- StateManager calls followed by a dispatch
\* A client prepares conversation c1 through the StateManager and then
\* dispatches on it: to a registered worker, to a legacy worker or to a name
\* nobody answers to, with a safe or an unsafe payload.
LifecycleTargets == {"w1", "FileAgent", "SearchAgent"}
LifecyclePayloads == {PText, PRm}

LifecycleStart(d) ==
    \E a \in LifecycleTargets, p \in LifecyclePayloads : RouteStart(d, a, p, OConv)

\* The calls are made before the dispatch starts.
LifecycleCall(cid) ==
    \/ NothingStarted /\ StateCreate(cid, [topic |-> "a"])
    \/ NothingStarted /\ \E s \in LifecycleStates : StateUpdate(cid, [state |-> s])
    \/ NothingStarted /\ StateAddMessage(cid)
    \/ NothingStarted /\ StateSetContext(cid, [lang |-> "ar"])
    \/ NothingStarted /\ StateUpdateContext(cid, [lang |-> "ar"])
    \/ NothingStarted /\ \E data \in ImportConversations(cid) : StateImport(data)

NextLifecycle ==
    \/ \E a \in DOMAIN AgentCatalog : RegisterAgent(a)
    \/ \E cid \in StateIds : LifecycleCall(cid)
    \/ \E d \in Dispatches : LifecycleStart(d) \/ RouteRun(d) \/ LegacyStep(d)

SpecLifecycle == Init /\ [][NextLifecycle]_vars

\* --------------------------------------- dispatches that say how to be served
\* The caller names conversation c1 and sets options["stream"].
StreamOptions == {[conversation_id |-> "c1", stream |-> s] : s \in BOOLEAN}

StreamStart(d) ==
    \E a \in LifecycleTargets, p \in LifecyclePayloads, o \in StreamOptions :
        RouteStart(d, a, p, o)

NextStream ==
    \/ Tick
    \/ \E a \in DOMAIN AgentCatalog : RegisterAgent(a)
    \/ \E d \in Dispatches : StreamStart(d) \/ RouteRun(d) \/ LegacyStep(d)

SpecStream == Init /\ [][NextStream]_vars

\* The caller keeps asking for the next item, the event loop runs what is
\* ready, and the worker's response arrives, ends or fails: a step of the
\* dispatch that stays possible is taken.
SpecConsumed ==
    /\ Init
    /\ [][NextStream]_vars
    /\ \A d \in Dispatches : WF_vars(RouteRun(d) \/ LegacyStep(d))

\* The caller may also stop consuming the stream of a dispatch.
NextAbandon ==
    \/ NextStream
    \/ \E d \in Dispatches : Abandon(d)

SpecAbandon == Init /\ [][NextAbandon]_vars

\* ------------------------------------------------------------- EventSystem
\* An EventSystem value is [subscribers, event_history, max_history_per_type].
\* subscribers[event_type] is a Python dict of subscription id -> callback: a
\* list of entries in insertion order, where a deleted key leaves its entry
\* behind, marked dead (the dict is not resized while it has had fewer than
\* six insertions).  The dict object is known by the id of its first entry.
\* Ids from uuid4 are numbered in the order drawn.
LiveEntries(entries) == SelectSeq(entries, LAMBDA entry : entry.live)

\* len(dict)
Used(entries) == Len(LiveEntries(entries))

Subscribed(es, event_type, subscription_id) ==
    /\ event_type \in DOMAIN es.subscribers
    /\ \E i \in 1..Len(es.subscribers[event_type]) :
          /\ es.subscribers[event_type][i].id = subscription_id
          /\ es.subscribers[event_type][i].live

EventSystem_subscribe(es, event_type, subscription_id, callback) ==
    LET entry == [id |-> subscription_id, callback |-> callback, live |-> TRUE]
        dict  == IF event_type \in DOMAIN es.subscribers
                 THEN es.subscribers[event_type] ELSE <<>>
    IN  [es EXCEPT !.subscribers = (event_type :> Append(dict, entry)) @@ @]

EventSystem_unsubscribe(es, event_type, subscription_id) ==
    IF ~Subscribed(es, event_type, subscription_id) THEN es
    ELSE LET dict == [i \in 1..Len(es.subscribers[event_type]) |->
                         IF es.subscribers[event_type][i].id = subscription_id
                         THEN [es.subscribers[event_type][i] EXCEPT !.live = FALSE]
                         ELSE es.subscribers[event_type][i]]
         IN  IF Used(dict) = 0
             THEN [es EXCEPT !.subscribers = Without(@, event_type)]
             ELSE [es EXCEPT !.subscribers[event_type] = dict]

\* Lines 48-65: the event is made and put into the history of its type.
Record(es, event) ==
    LET log == IF event.type \in DOMAIN es.event_history
               THEN es.event_history[event.type] ELSE <<>>
        added == Append(log, event)
    IN  [es EXCEPT !.event_history =
            (event.type :> (IF Len(added) > es.max_history_per_type
                            THEN LastN(added, es.max_history_per_type)
                            ELSE added)) @@ @]

\* What callbacks do when called: record the event; raise an Exception; or
\* record the event and unsubscribe themselves (a one-shot listener).
Callbacks == {"records", "raises", "once"}

\* The dict the iterator of a publish coroutine walks, as it is now; the
\* dict object removed from _subscribers at line 122 is empty for good.
DictOf(es, coroutine) ==
    IF /\ coroutine.type \in DOMAIN es.subscribers
       /\ es.subscribers[coroutine.type][1].id = coroutine.dict
    THEN es.subscribers[coroutine.type] ELSE <<>>

\* Lines 235-239, from the `for` statement asking its iterator for the next
\* item to the call of that item's callback.  The iterator raises
\* RuntimeError when the dict's size is not what it was when the loop began
\* (the `for` is outside the try); at the end of the dict the loop is over
\* and publish returns the event's id (line 71).  The result is the
\* EventSystem, the coroutine and the subscription called, if any.
Advance(es, coroutine) ==
    LET dict  == DictOf(es, coroutine)
        ahead == {i \in (coroutine.pos + 1)..Len(dict) : dict[i].live}
    IN  IF Used(dict) # coroutine.used
        THEN [es |-> es, called |-> 0,
              coroutine |-> [coroutine EXCEPT !.pc = "raised", !.value = "RuntimeError"]]
        ELSE IF ahead = {}
        THEN [es |-> es, called |-> 0,
              coroutine |-> [coroutine EXCEPT !.pc = "returned",
                                              !.value = coroutine.event.id]]
        ELSE LET i == CHOOSE i \in ahead : \A j \in ahead : i <= j
             IN  [es |-> IF dict[i].callback = "once"
                         THEN EventSystem_unsubscribe(es, coroutine.type, dict[i].id)
                         ELSE es,
                  called |-> dict[i].id,
                  coroutine |-> [coroutine EXCEPT !.pos = i]]

\* Lines 45-68 and 232-235: publish up to its first await.
Begin(es, event) ==
    LET es1 == Record(es, event)
        coroutine == [pc |-> "notify", type |-> event.type, event |-> event,
                      value |-> "None", pos |-> 0, dict |-> 0, used |-> 0,
                      subscribed |-> {}]
    IN  IF event.type \notin DOMAIN es1.subscribers
        THEN [es |-> es1, called |-> 0,
              coroutine |-> [coroutine EXCEPT !.pc = "returned", !.value = event.id]]
        ELSE LET dict == es1.subscribers[event.type]
             IN  Advance(es1, [coroutine EXCEPT
                                  !.dict = dict[1].id, !.used = Used(dict),
                                  !.subscribed = {dict[i].id : i \in
                                                   {j \in 1..Len(dict) : dict[j].live}}])

\* ----------------------------------------------- EventSystem, called directly
\* Clients subscribe, unsubscribe and publish on one EventSystem.  A callback
\* may suspend, so other calls may run before the publish that awaits it goes
\* on to the next subscriber.
SystemTypes == {"a", "b"}

SystemRest == <<now, client_vars, registry_vars, state_vars, memory_vars, bus_vars,
                task, yielded, lines, calls>>

\* The callback of the subscription was called with the event.
Called(subscription_id, event) ==
    invoked' = IF subscription_id = 0 THEN invoked
               ELSE [invoked EXCEPT ![subscription_id] = Append(@, event)]

SystemSubscribe(event_type, callback) ==
    /\ Cardinality(DOMAIN invoked) < MaxSubscriptions
    /\ LET subscription_id == Cardinality(DOMAIN invoked) + 1
       IN  /\ event_system' = EventSystem_subscribe(event_system, event_type,
                                                    subscription_id, callback)
           /\ invoked' = (subscription_id :> <<>>) @@ invoked
    /\ UNCHANGED <<publishing, SystemRest>>

SystemUnsubscribe(event_type, subscription_id) ==
    /\ event_system' = EventSystem_unsubscribe(event_system, event_type, subscription_id)
    /\ UNCHANGED <<publishing, invoked, SystemRest>>

SystemPublish(event_type) ==
    /\ Len(publishing) < MaxSystemPublishes
    /\ LET event == [id |-> Len(publishing) + 1, type |-> event_type,
                     data |-> [n |-> Len(publishing) + 1], source |-> "client",
                     timestamp |-> now]
           after == Begin(event_system, event)
       IN  /\ event_system' = after.es
           /\ publishing' = Append(publishing, after.coroutine)
           /\ Called(after.called, event)
    /\ UNCHANGED SystemRest

\* The awaited callback is done; the loop of _notify_subscribers goes on.
SystemResume(p) ==
    /\ publishing[p].pc = "notify"
    /\ LET after == Advance(event_system, publishing[p])
       IN  /\ event_system' = after.es
           /\ publishing' = [publishing EXCEPT ![p] = after.coroutine]
           /\ Called(after.called, publishing[p].event)
    /\ UNCHANGED SystemRest

NextSystem ==
    \/ \E event_type \in SystemTypes, callback \in Callbacks :
          SystemSubscribe(event_type, callback)
    \/ \E event_type \in SystemTypes, subscription_id \in DOMAIN invoked :
          SystemUnsubscribe(event_type, subscription_id)
    \/ \E event_type \in SystemTypes : SystemPublish(event_type)
    \/ \E p \in DOMAIN publishing : SystemResume(p)

SpecSystem == Init /\ [][NextSystem]_vars

\* ---------------------------------------------- AgentRegistry, called directly
RegistryIds == {"w1", "w2", "w3"}
Tags == {"a", "b"}
CapabilityLists == {<<"a">>, <<"b">>, <<"a", "b">>}
RequiredLists == {<<>>, <<"a">>, <<"a", "b">>, <<"b", "a">>, <<"c">>}

Decl(agent_id, capabilities) ==
    [name |-> agent_id, url |-> "http://worker", capabilities |-> capabilities,
     supports_streaming |-> FALSE]

RegistryRest == <<system_vars, state_vars, memory_vars, bus_vars, task, yielded, lines, calls, appended>>

RegistryRegister(agent_id, capabilities) ==
    /\ SetReg(register_agent(Reg, agent_id, Decl(agent_id, capabilities), now))
    /\ Returned("register_agent", agent_id, agent_id \notin DOMAIN agents)
    /\ UNCHANGED <<now, RegistryRest>>

RegistryUnregister(agent_id) ==
    /\ SetReg(unregister_agent(Reg, agent_id))
    /\ Returned("unregister_agent", agent_id, agent_id \in DOMAIN agents)
    /\ UNCHANGED <<now, RegistryRest>>

RegistryUpdateActivity(agent_id) ==
    /\ SetReg(update_agent_activity(Reg, agent_id, now))
    /\ Returned("update_agent_activity", agent_id, agent_id \in DOMAIN agents)
    /\ UNCHANGED <<now, RegistryRest>>

RegistryFind(capability) ==
    /\ Returned("find_agents_by_capability", capability,
                find_agents_by_capability(Reg, capability))
    /\ UNCHANGED <<now, registry_vars, RegistryRest>>

RegistryFindBest(required_capabilities) ==
    /\ Returned("find_best_agent_for_task", required_capabilities,
                find_best_agent_for_task(Reg, required_capabilities))
    /\ UNCHANGED <<now, registry_vars, RegistryRest>>

NextRegistry ==
    \/ \E agent_id \in RegistryIds : \E capabilities \in CapabilityLists :
          RegistryRegister(agent_id, capabilities)
    \/ \E agent_id \in RegistryIds : RegistryUnregister(agent_id)
    \/ \E agent_id \in RegistryIds : RegistryUpdateActivity(agent_id)
    \/ \E capability \in Tags \cup {"c"} : RegistryFind(capability)
    \/ \E required_capabilities \in RequiredLists : RegistryFindBest(required_capabilities)

SpecRegistry == Init /\ [][NextRegistry]_vars

\* ------------------------------------------------ EventStream, called directly
\* The wildcard subscriber of Init stays subscribed: what it was handed is the
\* sequence of all events published.
BusIds == {"s1", "s2"}
EventTypes == {"a", "b"}
Subscriptions == {{"a"}, {"*"}, {}}
FaultyCallbacks == {"s1"}       \* the callback of s1 raises on every event

Published == delivered["observer"]

BusRest == <<now, system_vars, registry_vars, state_vars, memory_vars, task, yielded, lines, calls,
             appended>>

BusSubscribe(subscriber_id, event_types, raises) ==
    /\ SetBus(subscribe(Bus, subscriber_id, event_types, raises))
    /\ Returned("subscribe", subscriber_id, event_types # {})
    /\ UNCHANGED BusRest

BusUnsubscribe(subscriber_id) ==
    /\ SetBus(unsubscribe(Bus, subscriber_id))
    /\ Returned("unsubscribe", subscriber_id,
                PositionOf(subscribers, subscriber_id) # 0)
    /\ UNCHANGED BusRest

\* The k-th event a client publishes carries k.
NextEvent(event_type) ==
    Event(event_type, [n |-> Len(Published) + 1], "client", now)

BusPublish(event_type) ==
    /\ Len(Published) < MaxPublishes
    /\ SetBus(publish(Bus, NextEvent(event_type)))
    /\ Returned("publish", event_type, TRUE)
    /\ UNCHANGED BusRest

\* EventStream(max_history): any capacity.
InitBus == \E max_h \in 0..MaxHistory : Constructed(MaxShortTerm, MaxLongTerm, max_h)

NextBus ==
    \/ \E subscriber_id \in BusIds : \E event_types \in Subscriptions :
          BusSubscribe(subscriber_id, event_types, subscriber_id \in FaultyCallbacks)
    \/ \E subscriber_id \in BusIds : BusUnsubscribe(subscriber_id)
    \/ \E event_type \in EventTypes : BusPublish(event_type)

SpecBus == InitBus /\ [][NextBus]_vars

\* A client publishes events and reads the history back.
Limits == {[none |-> TRUE]} \cup {[int |-> k] : k \in 0..MaxPublishes}
Filters == {[none |-> TRUE], [list |-> <<"a">>], [list |-> <<"a", "b">>]}

BusHistory(limit, event_types) ==
    /\ Returned("get_history", [limit |-> limit, event_types |-> event_types],
                get_history(Bus, limit, event_types))
    /\ UNCHANGED <<bus_vars, BusRest>>

NextHistory ==
    \/ \E event_type \in EventTypes : BusPublish(event_type)
    \/ \E limit \in Limits : \E event_types \in Filters : BusHistory(limit, event_types)

SpecHistory == InitBus /\ [][NextHistory]_vars

\* Subscribers whose callbacks call subscribe or unsubscribe on the bus.
CallsBack ==
    {[op |-> "unsubscribe", id |-> s] : s \in BusIds}
    \cup {[op |-> "subscribe", id |-> "s3", event_types |-> {"*"}]}

BusSubscribeCallingBack(subscriber_id, event_types, callback) ==
    /\ LET bus == subscribe(Bus, subscriber_id, event_types, FALSE)
           at  == PositionOf(bus.subscribers, subscriber_id)
       IN  SetBus([bus EXCEPT !.subscribers[at] = [calls |-> callback] @@ @])
    /\ Returned("subscribe", subscriber_id, TRUE)
    /\ UNCHANGED BusRest

BusPublishCallingBack(event_type) ==
    /\ Len(Published) < MaxPublishes
    /\ LET call == publish_calling_back(Bus, NextEvent(event_type))
       IN  /\ SetBus(call.bus)
           /\ Returned("publish", event_type,
                       IF call.raised THEN [raised |-> "RuntimeError"]
                       ELSE [value |-> TRUE])
    /\ UNCHANGED BusRest

NextCallingBack ==
    \/ \E subscriber_id \in BusIds : BusSubscribe(subscriber_id, {"a"}, FALSE)
    \/ \E subscriber_id \in BusIds : \E callback \in CallsBack :
          BusSubscribeCallingBack(subscriber_id, {"*"}, callback)
    \/ \E subscriber_id \in BusIds \cup {"s3"} : BusUnsubscribe(subscriber_id)
    \/ \E event_type \in EventTypes : BusPublishCallingBack(event_type)

SpecCallingBack == Init /\ [][NextCallingBack]_vars

\* ================================================================== claims
Last(s) == s[Len(s)]

\* Events of one type that dispatch d has published, as the observer saw them.
EventsOf(d, type) ==
    {i \in 1..Len(delivered["observer"]) :
        /\ delivered["observer"][i].type = type
        /\ delivered["observer"][i].data.dispatch = d}

Rejected(d) == task[d].pc # "idle" /\ ~task[d].security_check.safe

\* C1: a dispatch rejected by the Security Gate makes no worker call and
\* changes nothing in the State Manager, the Memory Store or the Registry:
\* every step such a dispatch takes leaves conversations, message logs,
\* contexts, all memory tiers, worker records, capability index, activity
\* timestamps and the list of worker calls as they were.
C1_RejectedDispatchMutatesNothing ==
    [][\A d \in Dispatches :
          (task'[d] # task[d] /\ ~task'[d].security_check.safe)
          => UNCHANGED <<registry_vars, state_vars, memory_vars, calls>>]_vars

\* A rejected dispatch (denylisted pattern in a string payload) has run to its
\* end next to a registered worker and an open conversation.
C1_Witness ==
    \E d \in Dispatches :
        /\ task[d].pc = "done"
        /\ task[d].payload = PRm
        /\ Rejected(d)
        /\ "w1" \in DOMAIN agents
        /\ "c1" \in DOMAIN conversations
        /\ now > 0

\* C2: a rejected dispatch publishes exactly one security_violation event and
\* yields exactly one item, the event being published before the caller
\* receives the item: whenever the caller holds the error item the event is
\* already on the bus, and at the end there is one event and one item.
C2_EventBeforeErrorItem ==
    \A d \in Dispatches :
        Rejected(d) =>
            /\ Len(yielded[d]) <= 1
            /\ Cardinality(EventsOf(d, "security_violation")) <= 1
            /\ Len(yielded[d]) = 1 =>
                   Cardinality(EventsOf(d, "security_violation")) = 1
            /\ task[d].pc = "done" => Len(yielded[d]) = 1

\* The inbound request of dispatch d is the newest entry of its conversation's
\* message log and of its short-term memory.
InboundRecorded(d) ==
    LET cid == task[d].conversation_id
    IN  /\ cid \in DOMAIN messages
        /\ messages[cid] # <<>>
        /\ Last(messages[cid]) = UserMessage(task[d].payload, now)
        /\ cid \in DOMAIN short_term_memory
        /\ short_term_memory[cid] # <<>>
        /\ Last(short_term_memory[cid]) = RequestItem(task[d].payload, now)

\* C3: request_started is published only after the inbound payload has been
\* appended to the conversation's message log and to its short-term memory:
\* in every step that hands a request_started event of dispatch d to the
\* subscribers, both records are already in place (this is the state a
\* subscriber's callback, run inside publish, observes).
C3_StartedAfterRecorded ==
    [][\A d \in Dispatches :
          EventsOf(d, "request_started")' # EventsOf(d, "request_started")
          => InboundRecorded(d) /\ InboundRecorded(d)']_vars

\* request_started has been published for a dispatch into a conversation that
\* already held state, with the request recorded.
C3_Witness ==
    \E d \in Dispatches :
        /\ EventsOf(d, "request_started") # {}
        /\ task[d].pc = "lookup"
        /\ InboundRecorded(d)

\* Dispatch d found its target in the Registry.
ViaRegistry(d) == task[d].agent_info # NoInfo

ConversationOf(d) == conversations[task[d].conversation_id]

\* C4: for a dispatch resolved through the Registry, activeWorkerId is the
\* worker id from the moment the worker call is issued, and it is null once
\* the dispatch has terminated, by completion or by an error during the call.
C4_ActiveWorkerSetThenCleared ==
    \A d \in Dispatches :
        ViaRegistry(d) =>
            /\ task[d].pc \in {"post", "read_line", "read_json"}
                   => ConversationOf(d).active_agent = task[d].agent
            /\ task[d].pc = "done" => ConversationOf(d).active_agent = None

\* C5: a failure during the worker call of a dispatch that passed the gate and
\* resolved a worker (Registry or legacy table) ends the dispatch with exactly
\* one agent_error event published and exactly one error item yielded, as the
\* last item of the stream.
C5_FailureOneEventOneErrorItem ==
    \A d \in Dispatches :
        (task[d].pc = "done" /\ task[d].failed) =>
            /\ Cardinality(EventsOf(d, "agent_error")) = 1
            /\ yielded[d] # <<>>
            /\ Last(yielded[d]) = ErrorItem("agent_failed")
            /\ Cardinality({i \in 1..Len(yielded[d]) :
                               yielded[d][i] = ErrorItem("agent_failed")}) = 1

\* The well-formed items of a sequence of response lines, in order.
RECURSIVE ItemsOf(_)
ItemsOf(ls) ==
    IF ls = <<>> THEN <<>>
    ELSE (IF Head(ls).kind \in ObjectKinds
          THEN <<Item(Head(ls).kind, Head(ls).n)>> ELSE <<>>) \o ItemsOf(Tail(ls))

Front(s) == SubSeq(s, 1, Len(s) - 1)

\* Positions of the streaming relay loop of a Registry dispatch.
RelayPcs == {"read_line", "mirror_chunk", "publish_chunk", "yield_chunk",
             "chunk_yielded", "finish"}
InHand(d) == task[d].pc \in {"mirror_chunk", "publish_chunk", "yield_chunk"}

Relaying(d) == ViaRegistry(d) /\ task[d].supports_streaming /\ task[d].pc \in RelayPcs

\* Items are relayed in the order received, at most the one in hand held back.
RelayedInOrder(d) ==
    yielded[d] = IF InHand(d) THEN Front(ItemsOf(lines[d])) ELSE ItemsOf(lines[d])

ChunkAnnounced(d) ==
    /\ delivered["observer"] # <<>>
    /\ Last(delivered["observer"]) =
           Event("response_chunk", EventData(d, task[d].data), "router", now)
    /\ Cardinality(EventsOf(d, "response_chunk")) = Len(yielded[d]) + 1

BodyDelivered(d) ==
    \/ ~task[d].failed
    \/ lines[d] # <<>> /\ Last(lines[d]).kind \in RaisingKinds

\* C7: a malformed line in a streaming response is dropped without aborting
\* the stream: once the dispatch is done the caller has received exactly the
\* well-formed items of the lines sent, in order, and no error item.
C7_MalformedLinesDropped ==
    \A d \in Dispatches :
        (task[d].pc = "done" /\ task[d].supports_streaming /\ BodyDelivered(d))
        => yielded[d] = ItemsOf(lines[d])

RegistrySingle(d) ==
    /\ ViaRegistry(d)
    /\ ~task[d].agent_info.supports_streaming

AssistantRecorded(d) ==
    LET log == messages[task[d].conversation_id]
    IN  log # <<>> /\ Last(log) = AssistantMessage(task[d].data, now)

ResponseRemembered(d) ==
    LET st == short_term_memory[task[d].conversation_id]
    IN  st # <<>> /\ Last(st) = ChunkItem("response", ContentOrAll(task[d].data), now)

\* C8: a dispatch to a non-streaming Registry worker that returns one result
\* yields exactly one item, that result; before it is yielded the result has
\* been appended to the message log as an assistant message, then to
\* short-term memory, then announced by exactly one response_complete event
\* carrying the conversation id.
C8_SingleResultRecordedThenYielded ==
    \A d \in Dispatches :
        RegistrySingle(d) =>
            /\ task[d].pc = "add_response_memory" =>
                   /\ AssistantRecorded(d)
                   /\ EventsOf(d, "response_complete") = {}
            /\ task[d].pc = "publish_complete" =>
                   /\ AssistantRecorded(d) /\ ResponseRemembered(d)
                   /\ EventsOf(d, "response_complete") = {}
            /\ task[d].pc = "yield_result" =>
                   /\ AssistantRecorded(d) /\ ResponseRemembered(d)
                   /\ Cardinality(EventsOf(d, "response_complete")) = 1
                   /\ Last(delivered["observer"]) =
                          Event("response_complete", EventData(d, task[d].data),
                                "router", now)
                   /\ Last(delivered["observer"]).data.conversation_id =
                          task[d].conversation_id
                   /\ yielded[d] = <<>>
            /\ (task[d].pc = "result_yielded" \/ (task[d].pc = "done" /\ ~task[d].failed))
                   => /\ yielded[d] = <<task[d].data>>
                      /\ Cardinality(EventsOf(d, "response_complete")) = 1

\* A non-streaming Registry dispatch has completed with its single result.
C8_Witness ==
    \E d \in Dispatches :
        /\ RegistrySingle(d)
        /\ task[d].pc = "done" /\ ~task[d].failed
        /\ yielded[d] = <<Item("content", 1)>>
        /\ Len(messages[task[d].conversation_id]) = 2

\* C9: a dispatch whose target names a capability declared by a registered
\* worker is routed to that worker: a safe dispatch of target "search" for
\* conversation c1, with w1 registered for "search", ends with a call made to
\* w1's endpoint, an assistant message closing c1's message log and a
\* response_complete event for c1 (when w1 answers with one result).
C9_CapabilityTargetRouted ==
    \A d \in Dispatches :
        ( /\ task[d].pc = "done"
          /\ ~Rejected(d)
          /\ task[d].agent = "search"
          /\ task[d].options = OConv
          /\ "w1" \in DOMAIN agents
          /\ ~task[d].failed )
        => /\ \E i \in 1..Len(calls) :
                 calls[i].dispatch = d /\ calls[i].url = agents["w1"].url
           /\ Last(messages["c1"]).role = "assistant"
           /\ Cardinality(EventsOf(d, "response_complete")) = 1

LegacyPcs == {"legacy_check", "legacy_publish", "legacy_send", "legacy_post",
              "legacy_read_line", "legacy_read_json", "legacy_mirror_chunk",
              "legacy_yield_chunk", "legacy_chunk_yielded", "legacy_add_memory",
              "legacy_result_yielded", "legacy_yield_error", "legacy_error_yielded",
              "unknown_yielded"}

\* C10: a target that matches a Registry entry is called at the registered
\* endpoint and never through the legacy table, also when its name is a key
\* of the legacy table; the legacy table is used only when the Registry
\* lookup found no entry.
C10_RegistryTakesPrecedence ==
    /\ \A i \in 1..Len(calls) :
          LET target == task[calls[i].dispatch].agent
          IN  IF target \in DOMAIN agents
              THEN calls[i].via = "registry" /\ calls[i].url = agents[target].url
              ELSE calls[i].via = "legacy" /\ calls[i].url = AGENT_URLS[target]
    /\ \A d \in Dispatches :
          (task[d].pc \in LegacyPcs \/ EventsOf(d, "legacy_system_used") # {})
          => task[d].agent \notin DOMAIN agents

\* A worker registered under a legacy name has been called at its registered
\* endpoint, which is not the legacy table's address for that name.
C10_Witness ==
    \E i \in 1..Len(calls) :
        /\ task[calls[i].dispatch].agent = "FileAgent"
        /\ "FileAgent" \in DOMAIN agents
        /\ calls[i].via = "registry"
        /\ calls[i].url # AGENT_URLS["FileAgent"]

\* The dispatch was started without a target or without a payload.
Absent(t) == t.pc # "idle" /\ (t.agent = None \/ t.payload = PNone)

\* C11: a dispatch whose target or payload is absent yields a single error
\* item and mutates no state: no step it takes creates or changes a
\* conversation, a message log or a memory tier, it publishes no
\* request_started event, and when it is done the caller holds exactly one
\* item, an error item.
C11_AbsentInputMutatesNothing ==
    [][\A d \in Dispatches :
          (task'[d] # task[d] /\ Absent(task'[d]))
          => /\ UNCHANGED <<state_vars, memory_vars>>
             /\ EventsOf(d, "request_started")' = {}
             /\ task'[d].pc = "done"
                   => /\ Len(yielded'[d]) = 1
                      /\ "error" \in DOMAIN yielded'[d][1]]_vars

Min(a, b) == IF a < b THEN a ELSE b

\* The last j elements of s.
Suffix(s, j) == SubSeq(s, Len(s) - j + 1, Len(s))

\* C12: for a conversation whose memory was created and then only appended to
\* with addShortTerm, k times: shortTerm holds at most N items, longTerm at
\* most M, and longTerm followed by shortTerm is exactly the most recent
\* min(k, N+M) appended items in append order (so each eviction took the
\* oldest short-term item to the tail of longTerm).
C12_EvictionKeepsMostRecent ==
    \A cid \in DOMAIN appended :
        appended[cid].only =>
            LET k == Len(appended[cid].items)
            IN  /\ Len(short_term_memory[cid]) <= max_short_term_items
                /\ Len(long_term_memory[cid]) <= max_long_term_items
                /\ long_term_memory[cid] \o short_term_memory[cid] =
                       Suffix(appended[cid].items,
                              Min(k, max_short_term_items + max_long_term_items))

\* C13: in every state reachable through the Memory Store's operations, every
\* conversation's shortTerm holds at most N items and its longTerm at most M.
C13_TiersWithinCapacity ==
    \A cid \in DOMAIN short_term_memory :
        /\ Len(short_term_memory[cid]) <= max_short_term_items
        /\ Len(long_term_memory[cid]) <= max_long_term_items

\* The registered workers that declare tag t.
Declaring(t) == {id \in DOMAIN agents : t \in Range(agents[id].capabilities)}

\* C14: after any sequence of register and unregister calls the capability
\* index agrees with the worker records: an id is in the bucket of tag t if
\* and only if a registered worker with that id declares t, and no bucket of
\* the index is empty.
C14_IndexConsistent ==
    /\ \A t \in DOMAIN capability_index :
          /\ capability_index[t] # <<>>
          /\ Range(capability_index[t]) = Declaring(t)
    /\ \A t \in Tags : Declaring(t) # {} => t \in DOMAIN capability_index

\* Workers came and went: a bucket was emptied and pruned while another
\* bucket still holds a worker.
C14_Witness ==
    /\ returned # <<>>
    /\ Last(returned).op = "unregister_agent" /\ Last(returned).value = TRUE
    /\ "a" \notin DOMAIN capability_index
    /\ "b" \in DOMAIN capability_index
    /\ Len(agent_order) = 2

\* The ids in registration order that declare tag t.
InOrderDeclaring(t) == SelectSeq(agent_order, LAMBDA id : id \in Declaring(t))

C16_DuplicateRegisterRejected ==
    [][\A id \in RegistryIds : \A capabilities \in CapabilityLists :
          (id \in DOMAIN agents /\ RegistryRegister(id, capabilities))
          => /\ Last(returned').value = FALSE
             /\ UNCHANGED registry_vars]_vars

\* w1, registered for "a", was registered a second time for "b".
C16_Witness ==
    /\ Len(returned) = 2
    /\ returned[1].op = "register_agent" /\ returned[1].arg = "w1"
    /\ returned[1].value = TRUE
    /\ returned[2].op = "register_agent" /\ returned[2].arg = "w1"
    /\ returned[2].value = FALSE
    /\ agents["w1"].capabilities = <<"a">>

\* C17: unregister of a registered id returns true and removes the worker
\* record and its liveness entry; unregister of an id that is not registered
\* returns false and changes nothing, so a second unregister right after the
\* first returns false.
C17_UnregisterTrueThenFalse ==
    [][\A id \in RegistryIds :
          RegistryUnregister(id)
          => /\ IF id \in DOMAIN agents
                THEN /\ Last(returned').value = TRUE
                     /\ id \notin DOMAIN agents'
                     /\ id \notin DOMAIN agent_activity'
                ELSE /\ Last(returned').value = FALSE
                     /\ UNCHANGED registry_vars
             /\ ( /\ Len(returned) > 0
                  /\ Last(returned).op = "unregister_agent"
                  /\ Last(returned).arg = id
                  /\ Last(returned).value = TRUE )
                => Last(returned').value = FALSE]_vars

\* w1 was unregistered twice in a row while w2 stayed registered.
C17_Witness ==
    /\ Len(returned) = 2
    /\ returned[1].op = "unregister_agent" /\ returned[1].arg = "w1"
    /\ returned[1].value = TRUE
    /\ returned[2].op = "unregister_agent" /\ returned[2].arg = "w1"
    /\ returned[2].value = FALSE
    /\ "w2" \in DOMAIN agents

\* Number of required capabilities worker id satisfies.
Satisfied(id, required) ==
    Cardinality({i \in 1..Len(required) : required[i] \in Range(agents[id].capabilities)})

\* The workers in the order a scan of the required capabilities meets them.
RECURSIVE ScanOrder(_)
ScanOrder(required) ==
    IF required = <<>> THEN <<>>
    ELSE InOrderDeclaring(Head(required)) \o ScanOrder(Tail(required))

FirstAt(list, x) == CHOOSE i \in 1..Len(list) : list[i] = x /\ \A j \in 1..(i - 1) : list[j] # x

FaultyMatch(event_type) ==
    \E i \in 1..Len(subscribers) :
        subscribers[i].raises /\ Interested(subscribers[i], event_type)

\* C19: publish isolates subscriber faults: when the callback of a matching
\* subscriber fails, publish still returns success, the event is recorded in
\* history, and every subscriber whose event types match (by type or by
\* wildcard) is invoked exactly once with the event, the others not at all.
C19_SubscriberFaultIsolated ==
    [][\A event_type \in EventTypes :
          (BusPublish(event_type) /\ FaultyMatch(event_type))
          => /\ Last(returned').value = TRUE
             /\ history' # <<>>
             /\ Last(history') = NextEvent(event_type)
             /\ \A i \in 1..Len(subscribers) :
                   LET sub == subscribers[i]
                   IN  delivered'[sub.id] =
                          IF Interested(sub, event_type)
                          THEN Append(delivered[sub.id], NextEvent(event_type))
                          ELSE delivered[sub.id]]_vars

\* s1 raises on every "a" event and is subscribed ahead of the wildcard
\* subscriber s2: an "a" event was published and reached both of them.
C19_Witness ==
    /\ Len(subscribers) = 3
    /\ subscribers[2] = [id |-> "s1", event_types |-> {"a"}, raises |-> TRUE]
    /\ subscribers[3].id = "s2" /\ subscribers[3].event_types = {"*"}
    /\ returned # <<>> /\ Last(returned).op = "publish" /\ Last(returned).arg = "a"
    /\ Last(returned).value = TRUE
    /\ history # <<>>
    /\ delivered["s1"] # <<>> /\ Last(delivered["s1"]) = Last(history)
    /\ delivered["s2"] # <<>> /\ Last(delivered["s2"]) = Last(history)

\* C20: on a bus of history capacity H, after k publish calls the retained
\* history holds at most H events and is exactly the most recent min(k, H)
\* published events (of all types together) in publish order.
C20_HistoryKeepsMostRecent ==
    /\ Len(history) <= max_history
    /\ history = Suffix(Published, Min(Len(Published), max_history))


\* ---------------------------------------------------------------- C21
\* C21: create_memory for an id that already has memory returns the snapshot
\* of the existing memory and leaves its short-term, long-term and condensed
\* tiers as they were.
C21_CreateMemoryIdempotent ==
    [][\A cid \in MemoryIds :
          (MemoryCreate(cid) /\ cid \in DOMAIN short_term_memory)
          => /\ UNCHANGED <<short_term_memory, long_term_memory, condensed_memory>>
             /\ returned'[Len(returned')].value = get_memory(Mem, cid)]_vars

\* A second create in a row on a memory that holds items in both tiers.
C21_Witness ==
    /\ Len(returned) = 2
    /\ Last(returned).op = "create_memory"
    /\ returned[1].value = returned[2].value
    /\ Last(returned).value.short_term # <<>>
    /\ Last(returned).value.long_term # <<>>
    /\ Last(returned).value.condensed.summary = "s"

\* ---------------------------------------------------------------- C22
NotFound(call) ==
    IF call.op \in {"get_memory", "search_memory"}
    THEN call.value = [none |-> TRUE]
    ELSE call.value = FALSE

OtherThanCreate(cid) ==
    \/ MemoryAddShortTerm(cid)
    \/ MemoryAddLongTerm(cid)
    \/ MemoryUpdateCondensed(cid, "s")
    \/ MemoryGet(cid)
    \/ \E query \in Queries : MemorySearch(cid, query)
    \/ MemoryClear(cid)
    \/ MemoryDelete(cid)

\* C22: add_to_short_term_memory, add_to_long_term_memory,
\* update_condensed_memory, get_memory, search_memory, clear_memory and
\* delete_memory on an id that has no memory return False or None and leave
\* every tier of the store as it was.
C22_MissingIdNotFound ==
    [][\A cid \in MemoryIds :
          (OtherThanCreate(cid) /\ cid \notin DOMAIN short_term_memory)
          => /\ UNCHANGED memory_vars
             /\ NotFound(returned'[Len(returned')])]_vars

\* A long-term add on an id that was never created has just returned False.
C22_Witness ==
    /\ returned # <<>>
    /\ Last(returned).op = "add_to_long_term_memory"
    /\ Last(returned).value = FALSE
    /\ Last(returned).arg \notin DOMAIN long_term_memory
    /\ Last(returned).arg \notin DOMAIN appended

\* ---------------------------------------------------------------- C23
\* C23: create_conversation for an id that already exists returns the record
\* that is there, whatever metadata it is given, and leaves the record (its
\* state and metadata included), the message log and the context untouched.
C23_CreateConversationIdempotent ==
    [][\A cid \in StateIds : \A metadata \in Metadatas :
          (StateCreate(cid, metadata) /\ cid \in DOMAIN conversations)
          => /\ UNCHANGED state_vars
             /\ returned'[Len(returned')].value = conversations[cid]]_vars

\* A second create in a row on a conversation that is archived and has
\* messages, a context and metadata.
C23_Witness ==
    /\ Len(returned) = 2
    /\ Last(returned).op = "create_conversation"
    /\ returned[1].value = returned[2].value
    /\ Last(returned).value = conversations["c1"]
    /\ conversations["c1"].state = "archived"
    /\ conversations["c1"].metadata = [topic |-> "a"]
    /\ messages["c1"] # <<>>
    /\ contexts["c1"] # EmptyDict

\* ---------------------------------------------------------------- C24
\* C24: exporting a conversation and importing the snapshot into a fresh
\* StateManager gives a conversation with the same id, state, message log (in
\* the same order), metadata and context.
C24_ExportImportRoundTrip ==
    [][\A cid \in StateIds :
          StateRoundTrip(cid)
          => LET other == returned'[Len(returned')].value
             IN  /\ DOMAIN other.conversations = {cid}
                 /\ other.conversations[cid].id = cid
                 /\ other.conversations[cid].state = conversations[cid].state
                 /\ other.conversations[cid].metadata = conversations[cid].metadata
                 /\ other.messages[cid] = messages[cid]
                 /\ other.contexts[cid] = contexts[cid]]_vars

\* The round trip of an archived conversation with two messages, a context
\* and metadata, taken after the clock has moved on.
C24_Witness ==
    /\ returned # <<>>
    /\ Last(returned).op = "round_trip"
    /\ Last(returned).value.conversations["c1"].state = "archived"
    /\ Len(Last(returned).value.messages["c1"]) = 2
    /\ Last(returned).value.contexts["c1"] = [lang |-> "en", topic |-> "a"]
    /\ Last(returned).value.conversations["c1"].metadata # EmptyDict
    /\ Last(returned).value.conversations["c1"].updated_at
         # conversations["c1"].updated_at

\* ---------------------------------------------------------------- C25
\* C25: a conversation is active when it is created; afterwards its state
\* changes only in an update_conversation whose updates carry a state, or in
\* an import_conversation that overwrites it.  No step of a dispatch
\* (successful, failed or rejected), no add_message and no context call
\* changes it.
C25_NoAutomaticTransition ==
    [][\A cid \in DOMAIN conversations' :
          LET imported == \E data \in ImportConversations(cid) : StateImport(data)
              updated  == \E s \in LifecycleStates : StateUpdate(cid, [state |-> s])
          IN  IF cid \notin DOMAIN conversations
              THEN conversations'[cid].state = "active" \/ imported
              ELSE conversations'[cid].state # conversations[cid].state
                   => updated \/ imported]_vars

\* A dispatch has run to its end through a registered worker on a conversation
\* that was archived before it started and is archived still, with the
\* messages of the dispatch in its log.
C25_Witness ==
    \E d \in Dispatches :
        /\ task[d].pc = "done" /\ ~task[d].failed
        /\ ViaRegistry(d)
        /\ task[d].conversation_id = "c1"
        /\ conversations["c1"].state = "archived"
        /\ Len(messages["c1"]) >= 3
        /\ contexts["c1"] = [lang |-> "ar"]

\* ---------------------------------------------------------------- C26
\* Lines of the worker's streamed response that parsed to an object with an
\* error field.
ErrorLines(d) == {i \in 1..Len(lines[d]) : lines[d][i].kind = "error"}

\* The dispatch went through its failure path: one agent_error event, and one
\* error item of the Dispatcher closing the stream.
EndedByFailurePath(d) ==
    /\ Cardinality(EventsOf(d, "agent_error")) = 1
    /\ yielded[d] # <<>>
    /\ Last(yielded[d]) = ErrorItem("agent_failed")
    /\ Cardinality({i \in 1..Len(yielded[d]) :
                       yielded[d][i] = ErrorItem("agent_failed")}) = 1

\* C26: in a streaming dispatch through the Registry, once the worker has sent
\* an item with an error field no item of a later line is relayed to the
\* caller, and the dispatch ends through the failure path: an agent_error
\* event and a single error item.
C26_ErrorItemEndsRelay ==
    \A d \in Dispatches :
        (ViaRegistry(d) /\ task[d].supports_streaming) =>
            \A i \in ErrorLines(d) :
                /\ \A j \in (i + 1)..Len(lines[d]) :
                       lines[d][j].kind \in ObjectKinds =>
                           \A k \in 1..Len(yielded[d]) :
                               yielded[d][k] # Item(lines[d][j].kind, lines[d][j].n)
                /\ task[d].pc = "done" => EndedByFailurePath(d)

\* ---------------------------------------------------------------- C27
\* C27: when the worker found in the Registry supports streaming and the
\* caller's options say stream = false, the call to the worker still asks for
\* a stream, and the caller is handed exactly one item however many chunks
\* the worker sends.
C27_UnstreamedCallerGetsOneItem ==
    \A d \in Dispatches :
        (/\ ViaRegistry(d)
         /\ task[d].supports_streaming
         /\ task[d].options.stream = FALSE) =>
            /\ \A i \in 1..Len(calls) : calls[i].dispatch = d => calls[i].stream
            /\ (task[d].pc = "done" /\ ~task[d].failed)
                   => /\ \E i \in 1..Len(calls) : calls[i].dispatch = d
                      /\ Len(yielded[d]) = 1

\* ---------------------------------------------------------------- C28
\* The caller has been handed at least one item of the streamed response of
\* a Registry worker, and the response has not ended.
MidStream(d) ==
    /\ ViaRegistry(d)
    /\ task[d].supports_streaming
    /\ task[d].pc \in {"read_line", "chunk_yielded"}
    /\ yielded[d] # <<>>

\* C28: when the caller stops consuming in the middle of a streaming dispatch,
\* an agent_error event or a cancellation event is published for the dispatch,
\* and the messages and memory items recorded so far stay as they are.
C28_DisconnectPublishesEvent ==
    [][\A d \in Dispatches :
          (MidStream(d) /\ task'[d].pc = "closed")
          => /\ UNCHANGED <<state_vars, memory_vars>>
             /\ \E i \in (Len(delivered["observer"]) + 1)..Len(delivered'["observer"]) :
                    /\ delivered'["observer"][i].type \in {"agent_error", "cancelled"}
                    /\ delivered'["observer"][i].data.dispatch = d]_vars

\* ---------------------------------------------------------------- C29
\* What the caller holds when the stream of dispatch d has ended: the error
\* item alone for a rejected request or an unknown target; otherwise the
\* worker's items in order (one for a worker that does not stream), followed
\* by one error item when the call failed.
Unknown(d) == task[d].agent_info = NoInfo /\ task[d].agent \notin DOMAIN AGENT_URLS

StreamEnded(d) ==
    /\ task[d].pc = "done"
    /\ yielded[d] =
          IF Rejected(d) THEN <<ErrorItem("unsafe_request")>>
          ELSE IF Unknown(d) THEN <<ErrorItem("unknown_agent")>>
          ELSE ItemsOf(lines[d])
               \o (IF task[d].failed THEN <<ErrorItem("agent_failed")>> ELSE <<>>)
    /\ (~Rejected(d) /\ ~Unknown(d) /\ ~task[d].supports_streaming /\ ~task[d].failed)
           => Len(yielded[d]) = 1

\* C29: a dispatch whose stream the caller keeps consuming, against a worker
\* whose response ends or fails, eventually completes: the stream ends after
\* the single item of a worker that does not stream, after the last relayed
\* item of one that does, or after the error item on a failure.
C29_DispatchCompletes ==
    \A d \in Dispatches : (task[d].pc # "idle") ~> StreamEnded(d)

\* A dispatch has completed after relaying two items and then failing on the
\* third line.
C29_Witness ==
    \E d \in Dispatches :
        /\ StreamEnded(d)
        /\ ViaRegistry(d)
        /\ task[d].failed
        /\ Len(yielded[d]) = 3

\* ---------------------------------------------------------------- C30
Times(log, event) == Cardinality({i \in 1..Len(log) : log[i] = event})

\* C30: a publish on the per-type EventSystem puts the created event into the
\* history of its type, returns the event's id, and has by then called the
\* callback of every subscription that was subscribed to the type when publish
\* was called exactly once with that event, and no callback subscribed to
\* another type or unsubscribed before.
C30_PublishReachesEverySubscriber ==
    \A p \in DOMAIN publishing :
        LET coroutine == publishing[p]
            event == coroutine.event
        IN  /\ event.type \in DOMAIN event_system.event_history
            /\ \E i \in 1..Len(event_system.event_history[event.type]) :
                   event_system.event_history[event.type][i] = event
            /\ coroutine.pc # "raised"
            /\ coroutine.pc = "returned" =>
                   /\ coroutine.value = event.id
                   /\ \A subscription_id \in DOMAIN invoked :
                          Times(invoked[subscription_id], event)
                            = IF subscription_id \in coroutine.subscribed THEN 1 ELSE 0

\* ---------------------------------------------------------------- C31
\* The items of the short-term and long-term tiers of conversation cid.
InMemory(cid) ==
    IF cid \in DOMAIN short_term_memory
    THEN Range(short_term_memory[cid]) \cup Range(long_term_memory[cid])
    ELSE {}

\* The message log of conversation cid holds the inbound request of d.
UserMessageLogged(d, log) ==
    \E i \in 1..Len(log) : log[i].role = "user" /\ log[i].content = task[d].payload

\* Dispatch d failed during the worker call and has yielded its error item.
FailedAndYielded(d) ==
    /\ task[d].failed
    /\ task[d].pc \in {"error_yielded", "legacy_error_yielded", "done"}

\* C31 as claimed: after a failed dispatch has yielded its error item, the
\* conversation record exists, the inbound user message is in the message
\* log, and the request and the content of every chunk already relayed are
\* in memory.
C31_EverythingRecordedRetained ==
    \A d \in Dispatches :
        FailedAndYielded(d) =>
            LET cid == task[d].conversation_id
            IN  /\ cid \in DOMAIN conversations
                /\ UserMessageLogged(d, messages[cid])
                /\ \E it \in InMemory(cid) :
                       it.type = "request" /\ it.content = task[d].payload
                /\ \A j \in 1..Len(yielded[d]) :
                       "content" \in DOMAIN yielded[d][j] =>
                           \E it \in InMemory(cid) :
                               /\ it.type \in {"response_chunk", "legacy_response_chunk"}
                               /\ it.content = yielded[d][j].content

\* C31 (amended): a failure during the worker call rolls nothing back: from
\* the step that raises to the end of the dispatch, no step of the failed
\* dispatch changes a conversation record, a message log, a context or a
\* memory tier, and the conversation record and the inbound user message are
\* in place throughout.  What capacity eviction had already dropped from
\* memory before the failure stays dropped.
C31_FailureRollsNothingBack ==
    [][\A d \in Dispatches :
          (task'[d] # task[d] /\ task'[d].failed)
          => /\ UNCHANGED <<state_vars, memory_vars>>
             /\ task[d].conversation_id \in DOMAIN conversations'
             /\ UserMessageLogged(d, messages'[task[d].conversation_id])]_vars

\* A streaming Registry dispatch failed after relaying a chunk with content;
\* the error item is out, and the request and the chunk are still in
\* short-term memory.
C31_Witness ==
    \E d \in Dispatches :
        /\ ViaRegistry(d) /\ task[d].failed
        /\ task[d].pc = "error_yielded"
        /\ Len(yielded[d]) = 2
        /\ yielded[d][1] = Item("content", 1)
        /\ short_term_memory[task[d].conversation_id] =
               <<RequestItem(task[d].payload, 0),
                 ChunkItem("response_chunk", Item("content", 1).content, 0)>>

\* ---------------------------------------------------------------- C32
\* The tiers of every conversation other than cid are as they were.
OtherMemoriesUnchanged(cid) ==
    /\ DOMAIN short_term_memory' \ {cid} = DOMAIN short_term_memory \ {cid}
    /\ DOMAIN long_term_memory' \ {cid} = DOMAIN long_term_memory \ {cid}
    /\ DOMAIN condensed_memory' \ {cid} = DOMAIN condensed_memory \ {cid}
    /\ \A o \in DOMAIN short_term_memory \ {cid} :
          /\ short_term_memory'[o] = short_term_memory[o]
          /\ long_term_memory'[o] = long_term_memory[o]
          /\ condensed_memory'[o] = condensed_memory[o]

\* The call before this one was `op` on cid, and it returned True.
JustDid(op, cid) ==
    /\ returned # <<>>
    /\ Last(returned).op = op
    /\ Last(returned).arg = cid
    /\ Last(returned).value = TRUE

\* C32: clear_memory on an id that has memory empties its short-term and
\* long-term tiers and resets its condensed memory to the default, keeping
\* the entry: a get_memory that follows returns a snapshot (with empty
\* tiers) and an add_to_short_term_memory that follows returns True.
\* delete_memory removes the id from all three tiers: a get_memory that
\* follows returns None and an add_to_short_term_memory that follows returns
\* False.  Both leave the memory of every other conversation as it was.
C32_ClearKeepsDeleteRemoves ==
    [][\A cid \in TierIds :
          /\ (MemoryClear(cid) /\ cid \in DOMAIN short_term_memory)
                => /\ cid \in DOMAIN short_term_memory'
                   /\ cid \in DOMAIN long_term_memory'
                   /\ cid \in DOMAIN condensed_memory'
                   /\ short_term_memory'[cid] = <<>>
                   /\ long_term_memory'[cid] = <<>>
                   /\ condensed_memory'[cid] = DefaultCondensed(now)
                   /\ OtherMemoriesUnchanged(cid)
          /\ (MemoryGet(cid) /\ JustDid("clear_memory", cid))
                => returned'[Len(returned')].value =
                       [conversation_id |-> cid, short_term |-> <<>>,
                        long_term |-> <<>>, condensed |-> condensed_memory[cid]]
          /\ (MemoryAddShortTerm(cid) /\ JustDid("clear_memory", cid))
                => returned'[Len(returned')].value = TRUE
          /\ (MemoryDelete(cid) /\ cid \in DOMAIN short_term_memory)
                => /\ cid \notin DOMAIN short_term_memory'
                   /\ cid \notin DOMAIN long_term_memory'
                   /\ cid \notin DOMAIN condensed_memory'
                   /\ OtherMemoriesUnchanged(cid)
          /\ (MemoryGet(cid) /\ JustDid("delete_memory", cid))
                => returned'[Len(returned')].value = [none |-> TRUE]
          /\ (MemoryAddShortTerm(cid) /\ JustDid("delete_memory", cid))
                => /\ returned'[Len(returned')].value = FALSE
                   /\ UNCHANGED memory_vars]_vars

\* clear_memory has just returned True on c1, whose tiers are empty and whose
\* summary is the default, next to a memory of c2 that holds items in both
\* tiers and a summary.
C32_Witness ==
    /\ JustDid("clear_memory", "c1")
    /\ "c1" \in DOMAIN short_term_memory
    /\ short_term_memory["c1"] = <<>> /\ long_term_memory["c1"] = <<>>
    /\ condensed_memory["c1"].summary = ""
    /\ "c2" \in DOMAIN short_term_memory
    /\ short_term_memory["c2"] # <<>> /\ long_term_memory["c2"] # <<>>
    /\ condensed_memory["c2"].summary = "s"

\* ---------------------------------------------------------------- C33
\* Record `after` is record `before` with `updates` merged in.
Merged(before, updates, after) ==
    LET given == IF "metadata" \in DOMAIN updates THEN updates.metadata ELSE EmptyDict
    IN  /\ DOMAIN after.metadata = DOMAIN before.metadata \cup DOMAIN given
        /\ \A k \in DOMAIN before.metadata \ DOMAIN given :
              after.metadata[k] = before.metadata[k]
        /\ \A k \in DOMAIN given : after.metadata[k] = given[k]
        /\ after.state = IF "state" \in DOMAIN updates THEN updates.state
                         ELSE before.state
        /\ after.active_agent = IF "active_agent" \in DOMAIN updates
                                THEN updates.active_agent ELSE before.active_agent
        /\ after.id = before.id
        /\ after.created_at = before.created_at

OfTypes(event_types) ==
    IF "none" \in DOMAIN event_types THEN history
    ELSE SelectSeq(history, LAMBDA event : event.type \in Range(event_types.list))

\* C34: get_history(limit, event_types) returns at most `limit` events: the
\* most recent `limit` retained events whose type is in the filter (of all
\* types without a filter, all of them without a limit), in publish order,
\* for every limit >= 0.
C34_HistoryReturnsMostRecent ==
    (returned # <<>> /\ Last(returned).op = "get_history") =>
        LET limit      == Last(returned).arg.limit
            matching   == OfTypes(Last(returned).arg.event_types)
            n          == IF "none" \in DOMAIN limit THEN Len(matching) ELSE limit.int
        IN  /\ Len(Last(returned).value) <= n
            /\ Last(returned).value = Suffix(matching, Min(n, Len(matching)))

\* ---------------------------------------------------------------- C35
\* The worker call of dispatch d, resolved through the Registry, is in
\* flight: the POST is issued and its response is not yet read to the end.
InFlight(d) ==
    /\ ViaRegistry(d)
    /\ task[d].pc \in {"post", "read_line", "read_json", "mirror_chunk",
                       "publish_chunk", "yield_chunk", "chunk_yielded"}

Flying(cid) == {d \in DOMAIN task : InFlight(d) /\ task[d].conversation_id = cid}

\* C35: under any interleaving of dispatches, two for the same conversation
\* included, the active_agent of a conversation is not None whenever a worker
\* call resolved through the Registry is in flight for it, and None whenever
\* none is.
C35_ActiveWhileInFlight ==
    \A cid \in DOMAIN conversations :
        /\ Flying(cid) # {} => conversations[cid].active_agent # None
        /\ Flying(cid) = {} => conversations[cid].active_agent = None

\* ---------------------------------------------------------------- C36
\* Everything kept under conversation id cid: record, message log, context
\* and the three memory tiers (None where the id is unknown).
KeptUnder(cid) ==
    [conversation |-> IF cid \in DOMAIN conversations THEN conversations[cid]
                      ELSE [none |-> TRUE],
     messages     |-> IF cid \in DOMAIN messages THEN [log |-> messages[cid]]
                      ELSE [none |-> TRUE],
     context      |-> IF cid \in DOMAIN contexts THEN [dict |-> contexts[cid]]
                      ELSE [none |-> TRUE],
     short_term   |-> IF cid \in DOMAIN short_term_memory
                      THEN [list |-> short_term_memory[cid]] ELSE [none |-> TRUE],
     long_term    |-> IF cid \in DOMAIN long_term_memory
                      THEN [list |-> long_term_memory[cid]] ELSE [none |-> TRUE],
     condensed    |-> IF cid \in DOMAIN condensed_memory THEN condensed_memory[cid]
                      ELSE [none |-> TRUE]]

ConversationIds ==
    DOMAIN conversations \cup DOMAIN messages \cup DOMAIN contexts
    \cup DOMAIN short_term_memory \cup DOMAIN long_term_memory
    \cup DOMAIN condensed_memory

\* C36: under any interleaving of dispatches, a step of a dispatch that
\* carries conversation id c1 changes nothing kept under any other
\* conversation id: its record, message log, context and memory tiers are as
\* they were.
C36_ConversationsIndependent ==
    [][\A d \in DOMAIN task :
          task'[d] # task[d]
          => \A cid \in (ConversationIds \cup ConversationIds') \ {task'[d].conversation_id} :
                KeptUnder(cid)' = KeptUnder(cid)]_vars

\* Two dispatches ran interleaved for two conversations: each conversation
\* holds its own dispatch's request and response, while the other dispatch
\* is still reading its stream.
C36_Witness ==
    /\ task["d1"].conversation_id = "c1" /\ task["d1"].pc = "done"
    /\ task["d2"].conversation_id = "c2" /\ task["d2"].pc = "chunk_yielded"
    /\ Len(messages["c1"]) = 2
    /\ Len(messages["c2"]) = 1
    /\ Len(calls) = 2 /\ calls[1].dispatch = "d2" /\ calls[2].dispatch = "d1"
    /\ short_term_memory["c2"] # <<>>
    /\ Last(short_term_memory["c2"]).type = "response_chunk"

\* ---------------------------------------------------------------- C38
\* Dispatch d was given no conversation_id and has synthesized one.
Synthesized(d) ==
    /\ "conversation_id" \notin DOMAIN task[d].options
    /\ task[d].conversation_id # None

\* C38: dispatches that omit conversation_id each get a conversation of their
\* own: the ids synthesized for two such dispatches differ, so no message
\* log or memory holds the requests of both.
C38_SynthesizedIdsDistinct ==
    \A d \in DOMAIN task : \A other \in DOMAIN task \ {d} :
        (Synthesized(d) /\ Synthesized(other))
        => task[d].conversation_id # task[other].conversation_id

\* ---------------------------------------------------------------- C37
\* C37: publish succeeds and hands the event to every matching subscriber
\* that was registered when the publish began, also when the callback of a
\* subscriber calls subscribe or unsubscribe on the bus during delivery.
C37_PublishSurvivesReentrantCallbacks ==
    [][\A event_type \in EventTypes :
          BusPublishCallingBack(event_type)
          => /\ returned'[Len(returned')].value = [value |-> TRUE]
             /\ \A i \in 1..Len(subscribers) :
                   Interested(subscribers[i], event_type)
                   => \E j \in 1..Len(subscribers') :
                         /\ subscribers'[j].id = subscribers[i].id
                         /\ delivered'[subscribers[i].id] # <<>>
                         /\ Last(delivered'[subscribers[i].id]) = NextEvent(event_type)]_vars

\* ---------------------------------------------------------------- C39
\* C39: a completed dispatch to a streaming worker has appended exactly one
\* entry to the conversation's message log, the inbound user message: the
\* log of its (until then empty) conversation holds that message and no
\* assistant message, however many items were relayed.
C39_StreamingLogsOnlyUserMessage ==
    \A d \in Dispatches :
        (task[d].pc = "done" /\ task[d].supports_streaming /\ ~task[d].failed)
        => LET log == messages[task[d].conversation_id]
           IN  /\ Len(log) = 1
               /\ log[1].role = "user"
               /\ log[1].content = task[d].payload
               /\ \A i \in 1..Len(log) : log[i].role # "assistant"

\* A streaming Registry dispatch has completed after relaying three items
\* with content: they are in memory and announced, and the log has one entry.
C39_Witness ==
    \E d \in Dispatches :
        /\ ViaRegistry(d) /\ task[d].supports_streaming
        /\ task[d].pc = "done" /\ ~task[d].failed
        /\ Len(yielded[d]) = 3
        /\ \A j \in 1..3 : "content" \in DOMAIN yielded[d][j]
        /\ Cardinality(EventsOf(d, "response_chunk")) = 3
        /\ Last(short_term_memory[task[d].conversation_id]).type = "response_chunk"
        /\ Len(messages[task[d].conversation_id]) = 1

\* ---------------------------------------------------------------- C40
\* C40: after any sequence of State Manager calls (create, update, delete,
\* add_message, set_context, update_context, import) the three dicts have
\* the same keys: an id has a conversation record if and only if it has a
\* message log, and if and only if it has a context.
C40_MapsKeyedConsistently ==
    /\ DOMAIN conversations = DOMAIN messages
    /\ DOMAIN conversations = DOMAIN contexts

\* delete_conversation has just removed a conversation that existed, and no
\* map holds its id any more.
C40_Witness ==
    /\ returned # <<>>
    /\ Last(returned).op = "delete_conversation"
    /\ Last(returned).value = TRUE
    /\ Last(returned).arg \notin DOMAIN conversations
    /\ Last(returned).arg \notin DOMAIN messages
    /\ Last(returned).arg \notin DOMAIN contexts
    /\ now > 0
====
